---- MODULE Spec2Model ----
(***************************************************************************)
(* VidyaVani backend: the caching / orchestration layer in front of the    *)
(* text-generation, speech-synthesis and image-generation collaborators.   *)
(*                                                                         *)
(* Strings are TLA+ strings; a character is a string of length 1.          *)
(* Every request handler is cut at its awaits: one action per synchronous  *)
(* segment, since the event loop runs a segment to completion.             *)
(***************************************************************************)
EXTENDS Integers, Sequences, FiniteSets, TLC

VARIABLES
    now,            \* wall clock, in seconds since process start
    req,            \* request id -> in-flight / finished request record
    lessonCache,    \* routes/lesson.js lessonCache : key -> [v, t]
    lessonAudioCache, \* routes/lesson.js audioCache
    apiCallCount, cacheHitCount, audioApiCalls, audioCacheHits,
    doubtCache, doubtAudioCache,
    doubtApiCalls, doubtCacheHits, doubtAudioApiCalls, doubtAudioCacheHits,
    audioCache,     \* routes/audio.js (optimized) audioCache
    audioApiCallCount, audioCacheHitCount,
    diagramCache, imageApiCallCount, imageCacheHitCount,
    upstream,       \* number of collaborator calls issued, per collaborator
    ops,            \* history: number of set/del/flush operations, per cache
    probe,          \* input and result of a pure helper applied on its own
    adminRes,       \* the last response of a cache-clearing endpoint
    NODE_ENV        \* process.env.NODE_ENV of the running process

lessonVars == <<lessonCache, lessonAudioCache, apiCallCount, cacheHitCount,
                audioApiCalls, audioCacheHits>>
doubtVars == <<doubtCache, doubtAudioCache, doubtApiCalls, doubtCacheHits,
               doubtAudioApiCalls, doubtAudioCacheHits>>
audioVars == <<audioCache, audioApiCallCount, audioCacheHitCount>>
diagramVars == <<diagramCache, imageApiCallCount, imageCacheHitCount>>
vars == <<now, req, lessonVars, doubtVars, audioVars, diagramVars,
          upstream, ops, probe, adminRes, NODE_ENV>>

(***************************************************************************)
(* Bounds of the model.                                                    *)
(***************************************************************************)
MaxRequests == 2     \* requests served in one behaviour
MaxTicks == 1        \* clock advances in one behaviour
MaxFlushes == 1      \* cache-clearing requests in one behaviour
MaxHashLen == 7      \* longest generated input of the hash probe
MaxCoreLen == 2      \* longest generated core text of the key probe
MaxPad == 1          \* most blanks added on each side by the key probe
MaxParts == 3        \* most pieces of a generated text of the markup probe
MaxStride == 3       \* spellings of a topic: every 1st, 2nd, 3rd letter in upper case
MaxTopicChars == 2   \* most characters of a generated topic of the lesson-key probe
MaxParagraphs == 5   \* most paragraphs of a generated text of the parsing probe

(***************************************************************************)
(* JavaScript string primitives.                                           *)
(***************************************************************************)
CharAt(s, i) == SubSeq(s, i, i)

\* the printable ASCII characters in code order, from code 32, in three runs
Ascii32 == " !\"#$%&'()*+,-./0123456789:;<=>?@ABCDEFGHIJKLMNOPQRSTUVWXYZ["
Ascii93 == "]^_"
Ascii97 == "abcdefghijklmnopqrstuvwxyz{|}~"

CharsOf(run) == {CharAt(run, i) : i \in 1..Len(run)}
IndexIn(run, c) == CHOOSE i \in 1..Len(run) : CharAt(run, i) = c

\* the explicit function that maps the i-th character of keys to Value(i)
RECURSIVE CharMap(_, _, _, _)
CharMap(keys, Value(_), lo, hi) ==
    IF lo = hi THEN CharAt(keys, lo) :> Value(lo)
    ELSE CharMap(keys, Value, lo, (lo + hi) \div 2)
         @@ CharMap(keys, Value, (lo + hi) \div 2 + 1, hi)

CharCodes ==
    ("\n" :> 10) @@ ("\t" :> 9)
    @@ CharMap(Ascii32, LAMBDA i : 31 + i, 1, Len(Ascii32))
    @@ CharMap(Ascii93, LAMBDA i : 92 + i, 1, Len(Ascii93))
    @@ CharMap(Ascii97, LAMBDA i : 96 + i, 1, Len(Ascii97))

\* String.prototype.charCodeAt for the characters the model uses
charCodeAt(c) == CharCodes[c]

UpperLetters == "ABCDEFGHIJKLMNOPQRSTUVWXYZ"
LowerLetters == "abcdefghijklmnopqrstuvwxyz"
UpperSet == CharsOf(UpperLetters)
LowerSet == CharsOf(LowerLetters)
ToLower == CharMap(UpperLetters, LAMBDA i : CharAt(LowerLetters, i), 1, 26)
ToUpper == CharMap(LowerLetters, LAMBDA i : CharAt(UpperLetters, i), 1, 26)

IsUpper(c) == c \in UpperSet
IsLower(c) == c \in LowerSet

LowerChar(c) == IF IsUpper(c) THEN ToLower[c] ELSE c

UpperChar(c) == IF IsLower(c) THEN ToUpper[c] ELSE c

\* the least / greatest position of from..to that satisfies the test, or 0
FirstIn(from, to, Test(_)) ==
    IF \E i \in from..to : Test(i)
    THEN CHOOSE i \in from..to : Test(i) /\ \A j \in from..(i - 1) : ~Test(j)
    ELSE 0

LastIn(from, to, Test(_)) ==
    IF \E i \in from..to : Test(i)
    THEN CHOOSE i \in from..to : Test(i) /\ \A j \in (i + 1)..to : ~Test(j)
    ELSE 0

\* characters lo..hi of s, lower-cased (halving keeps the evaluation shallow)
RECURSIVE lowerRange(_, _, _)
lowerRange(s, lo, hi) ==
    IF lo > hi THEN ""
    ELSE IF lo = hi THEN LowerChar(CharAt(s, lo))
    ELSE lowerRange(s, lo, (lo + hi) \div 2) \o lowerRange(s, (lo + hi) \div 2 + 1, hi)

toLowerCase(s) ==
    IF \E i \in 1..Len(s) : IsUpper(CharAt(s, i)) THEN lowerRange(s, 1, Len(s)) ELSE s

\* the characters \s matches and trim() removes, among those the model uses
IsSpace(c) == c \in {" ", "\n", "\t"}

NonBlankAt(s, i) == ~IsSpace(CharAt(s, i))

trimStart(s) ==
    LET i == FirstIn(1, Len(s), LAMBDA k : NonBlankAt(s, k))
    IN  IF i = 0 THEN "" ELSE SubSeq(s, i, Len(s))

trimEnd(s) ==
    IF s # "" /\ NonBlankAt(s, Len(s)) THEN s
    ELSE SubSeq(s, 1, LastIn(1, Len(s), LAMBDA k : NonBlankAt(s, k)))

trim(s) == trimEnd(trimStart(s))

substring(s, from, to) ==
    SubSeq(s, from + 1, IF to > Len(s) THEN Len(s) ELSE to)

\* String(n) of an integer, as template literals and toString() produce it
RECURSIVE natToString(_)
natToString(n) ==
    IF n < 10 THEN CharAt("0123456789", n + 1)
    ELSE natToString(n \div 10) \o CharAt("0123456789", (n % 10) + 1)

intToString(n) == IF n < 0 THEN "-" \o natToString(0 - n) ELSE natToString(n)

\* s.includes(sub)
includes(s, sub) ==
    \E i \in 1..(Len(s) - Len(sub) + 1) : SubSeq(s, i, i + Len(sub) - 1) = sub

startsWith(s, p) == Len(s) >= Len(p) /\ SubSeq(s, 1, Len(p)) = p

\* the least i >= from with sub at position i of s (1-based), or 0
indexFrom(s, sub, from) ==
    FirstIn(from, Len(s) - Len(sub) + 1,
            LAMBDA i : SubSeq(s, i, i + Len(sub) - 1) = sub)

\* the replacement text of s.replace(pat, rep) for a replacement string: $$ is
\* a dollar sign, $& the matched text, $` the text before the match and $' the
\* text after it; any other character stands for itself
RECURSIVE getSubstitution(_, _, _, _)
getSubstitution(rep, matched, before, after) ==
    IF ~(\E i \in 1..Len(rep) : CharAt(rep, i) = "$") THEN rep
    ELSE LET two == SubSeq(rep, 1, 2)
             rest2 == getSubstitution(SubSeq(rep, 3, Len(rep)), matched, before, after)
         IN  IF two = "$$" THEN "$" \o rest2
             ELSE IF two = "$&" THEN matched \o rest2
             ELSE IF two = "$`" THEN before \o rest2
             ELSE IF two = "$'" THEN after \o rest2
             ELSE Head(rep) \o getSubstitution(Tail(rep), matched, before, after)

\* s.replace(pat, rep) with a string pattern: the first occurrence only
replaceFirst(s, pat, rep) ==
    LET i == indexFrom(s, pat, 1)
    IN  IF i = 0 THEN s
        ELSE SubSeq(s, 1, i - 1)
             \o getSubstitution(rep, pat, SubSeq(s, 1, i - 1),
                                SubSeq(s, i + Len(pat), Len(s)))
             \o SubSeq(s, i + Len(pat), Len(s))

\* s.replace(/c/g, rep) for a one-character pattern
RECURSIVE replaceRange(_, _, _, _, _)
replaceRange(s, c, rep, lo, hi) ==
    IF lo > hi THEN ""
    ELSE IF lo = hi THEN (IF CharAt(s, lo) = c THEN rep ELSE CharAt(s, lo))
    ELSE replaceRange(s, c, rep, lo, (lo + hi) \div 2)
         \o replaceRange(s, c, rep, (lo + hi) \div 2 + 1, hi)

replaceAllChar(s, c, rep) ==
    IF \E i \in 1..Len(s) : CharAt(s, i) = c THEN replaceRange(s, c, rep, 1, Len(s)) ELSE s

\* s.repeat(n)
RECURSIVE repeat(_, _)
repeat(s, n) ==
    IF n = 0 THEN ""
    ELSE LET h == repeat(s, n \div 2)
         IN  h \o h \o (IF n % 2 = 1 THEN s ELSE "")

\* array.join(sep)
RECURSIVE join(_, _)
join(seq, sep) ==
    IF seq = <<>> THEN ""
    ELSE IF Len(seq) = 1 THEN seq[1]
    ELSE seq[1] \o sep \o join(Tail(seq), sep)

DigitSet == CharsOf("0123456789")
IsDigit(c) == c \in DigitSet

(***************************************************************************)
(* JavaScript values of a request body: a field is a string, a number or   *)
(* missing.                                                                *)
(***************************************************************************)
JUndef == [ty |-> "undefined"]
JStr(s) == [ty |-> "string", s |-> s]
JNum(n) == [ty |-> "number", n |-> n]

\* !v is false
Truthy(v) ==
    CASE v.ty = "undefined" -> FALSE
      [] v.ty = "string" -> v.s # ""
      [] v.ty = "number" -> v.n # 0

NaN == [nan |-> TRUE, n |-> 0]

RECURSIVE digitsValue(_, _)
digitsValue(s, acc) ==
    IF s = "" \/ ~IsDigit(Head(s)) THEN acc
    ELSE digitsValue(Tail(s), acc * 10 + (IndexIn("0123456789", Head(s)) - 1))

\* parseInt(v): leading blanks, an optional sign, then the leading decimal digits
parseInt(v) ==
    CASE v.ty = "undefined" -> NaN
      [] v.ty = "number" -> [nan |-> FALSE, n |-> v.n]
      [] v.ty = "string" ->
            LET t == trimStart(v.s)
                neg == t # "" /\ Head(t) = "-"
                u == IF t # "" /\ Head(t) \in {"-", "+"} THEN Tail(t) ELSE t
            IN  IF u = "" \/ ~IsDigit(Head(u)) THEN NaN
                ELSE [nan |-> FALSE,
                      n |-> IF neg THEN 0 - digitsValue(u, 0) ELSE digitsValue(u, 0)]

\* parseInt(grade) || 6
gradeOrDefault(grade) ==
    LET p == parseInt(grade) IN IF p.nan \/ p.n = 0 THEN 6 ELSE p.n

\* language || "English", for a string or missing language
stringOr(v, dflt) == IF Truthy(v) THEN v.s ELSE dflt

(***************************************************************************)
(* 32-bit integer arithmetic of the bitwise operators, on 16-bit halves so *)
(* that no intermediate value leaves the range of a 32-bit integer.        *)
(***************************************************************************)
Half == 2 ^ 16

HiHalf(h) == (h \div Half) % Half
LoHalf(h) == h % Half

\* the signed 32-bit integer with the given halves (ToInt32)
ToInt32(hi, lo) == (IF hi >= 32768 THEN hi - Half ELSE hi) * Half + lo

\* h << n on a signed 32-bit integer, 0 < n < 16
ShiftLeft(h, n) ==
    LET m == 2 ^ n
        l == LoHalf(h) * m
    IN  ToInt32((HiHalf(h) * m + l \div Half) % Half, l % Half)

\* ToInt32(a - b)
Sub32(a, b) ==
    LET d == LoHalf(a) - LoHalf(b)
        borrow == IF d < 0 THEN 1 ELSE 0
    IN  ToInt32((HiHalf(a) - HiHalf(b) - borrow) % Half, d % Half)

\* ToInt32(a + c)
Add32(a, c) ==
    LET l == LoHalf(a) + LoHalf(c)
    IN  ToInt32((HiHalf(a) + HiHalf(c) + l \div Half) % Half, l % Half)

Base36Digits == "0123456789abcdefghijklmnopqrstuvwxyz"

\* the base-36 digits of the unsigned number hi * 2^16 + lo, most significant first
RECURSIVE base36(_, _)
base36(hi, lo) ==
    LET mid == (hi % 36) * Half + lo
        digit == CharAt(Base36Digits, (mid % 36) + 1)
        qhi == hi \div 36
        qlo == mid \div 36
    IN  IF qhi = 0 /\ qlo = 0 THEN digit ELSE base36(qhi, qlo) \o digit

\* Math.abs(h).toString(36) for a signed 32-bit h; |h| may be 2^31
absToString36(h) ==
    IF h >= 0 THEN base36(HiHalf(h), LoHalf(h))
    ELSE LET d == (0 - LoHalf(h)) % Half
             borrow == IF LoHalf(h) > 0 THEN 1 ELSE 0
         IN  base36((0 - HiHalf(h) - borrow) % Half, d)

(***************************************************************************)
(* simpleHash, as written in the doubt route and in the audio route.       *)
(***************************************************************************)
\* the loop over positions lo..hi of str, in order: the first half, then the
\* second half started from the value the first half ends with
RECURSIVE Doubt_hashLoop(_, _, _, _)
Doubt_hashLoop(str, lo, hi, hash) ==
    IF lo > hi THEN hash
    ELSE IF lo = hi
    THEN Add32(Sub32(ShiftLeft(hash, 5), hash), charCodeAt(CharAt(str, lo)))
    ELSE CHOOSE h \in {Doubt_hashLoop(str, (lo + hi) \div 2 + 1, hi, left) :
                        left \in {Doubt_hashLoop(str, lo, (lo + hi) \div 2, hash)}} : TRUE

Doubt_simpleHash(str) == absToString36(Doubt_hashLoop(str, 1, Len(str), 0))

\* the loop with hash << 4 in place of hash << 5
RECURSIVE Mutant_C10_hashLoop(_, _, _, _)
Mutant_C10_hashLoop(str, lo, hi, hash) ==
    IF lo > hi THEN hash
    ELSE IF lo = hi
    THEN Add32(Sub32(ShiftLeft(hash, 4), hash), charCodeAt(CharAt(str, lo)))
    ELSE CHOOSE h \in {Mutant_C10_hashLoop(str, (lo + hi) \div 2 + 1, hi, left) :
                        left \in {Mutant_C10_hashLoop(str, lo, (lo + hi) \div 2, hash)}} :
             TRUE

RECURSIVE Audio_hashLoop(_, _, _, _)
Audio_hashLoop(str, lo, hi, hash) ==
    IF lo > hi THEN hash
    ELSE IF lo = hi
    THEN Add32(Sub32(ShiftLeft(hash, 5), hash), charCodeAt(CharAt(str, lo)))
    ELSE CHOOSE h \in {Audio_hashLoop(str, (lo + hi) \div 2 + 1, hi, left) :
                        left \in {Audio_hashLoop(str, lo, (lo + hi) \div 2, hash)}} : TRUE

Audio_simpleHash(str) == absToString36(Audio_hashLoop(str, 1, Len(str), 0))

(***************************************************************************)
(* Cache keys.                                                             *)
(***************************************************************************)
\* the lesson key without the normalisation of the topic
Mutant_C1_getLessonCacheKey(topic, grade, language) ==
    "lesson_" \o topic \o "_" \o intToString(grade) \o "_" \o toLowerCase(language)

\* the lesson key with the grade written right after the topic
Mutant_C20_getLessonCacheKey(topic, grade, language) ==
    "lesson_" \o trim(toLowerCase(topic)) \o intToString(grade)
              \o "_" \o toLowerCase(language)

getLessonCacheKey(topic, grade, language) ==
    "lesson_" \o trim(toLowerCase(topic)) \o "_" \o intToString(grade)
              \o "_" \o toLowerCase(language)

Lesson_getAudioCacheKey(topic, grade, language) ==
    "audio_" \o trim(toLowerCase(topic)) \o "_" \o intToString(grade)
             \o "_" \o toLowerCase(language)

\* the diagram key without trim()
Mutant_C8_getDiagramCacheKey(topic, grade, style) ==
    "img_" \o toLowerCase(topic) \o "_" \o intToString(grade) \o "_" \o style

getDiagramCacheKey(topic, grade, style) ==
    "img_" \o trim(toLowerCase(topic)) \o "_" \o intToString(grade) \o "_" \o style

getDoubtCacheKey(question, grade, language) ==
    "doubt_" \o Doubt_simpleHash(trim(toLowerCase(question))) \o "_"
             \o intToString(grade) \o "_" \o toLowerCase(language)

getDoubtAudioCacheKey(answer, language) ==
    "doubt_audio_" \o Doubt_simpleHash(trim(toLowerCase(answer))) \o "_"
                   \o toLowerCase(language)

Audio_getAudioCacheKey(text, voiceId, languageCode) ==
    "audio_" \o voiceId \o "_" \o languageCode \o "_" \o Audio_simpleHash(text)

(***************************************************************************)
(* The cache store (node-cache): key -> [v |-> value, t |-> expiry time].  *)
(* t = 0 means the entry never expires. An entry is expired once t < now;  *)
(* get() re-checks the expiry itself and deletes an expired entry, the     *)
(* periodic check deletes all of them.                                     *)
(***************************************************************************)
EmptyCache == << >>

\* entries that never expire
Mutant_C3_Expired(entry, time) == FALSE

Expired(entry, time) == entry.t # 0 /\ entry.t < time

\* a lookup that never finds the entry
Mutant_C28_IsLive(cache, key, time) == FALSE

\* a lookup that takes any entry it finds, whatever its age
Mutant_C16_IsLive(cache, key, time) == key \in DOMAIN cache

\* get(key) returns a value
IsLive(cache, key, time) == key \in DOMAIN cache /\ ~Expired(cache[key], time)

\* the store after get(key): an expired entry found by get is deleted
AfterGet(cache, key, time) ==
    IF key \in DOMAIN cache /\ Expired(cache[key], time)
    THEN [k \in DOMAIN cache \ {key} |-> cache[k]]
    ELSE cache

\* a store that keeps the entry it already has for the key
Mutant_C2_CacheSet(cache, key, value, stdTTL, time) ==
    IF key \in DOMAIN cache /\ (cache[key].t = 0 \/ cache[key].t >= time)
    THEN cache
    ELSE [k \in DOMAIN cache \cup {key} |->
             IF k = key
             THEN [v |-> value, t |-> IF stdTTL = 0 THEN 0 ELSE time + stdTTL]
             ELSE cache[k]]

\* set(key, value) with the store's stdTTL
CacheSet(cache, key, value, stdTTL, time) ==
    [k \in DOMAIN cache \cup {key} |->
        IF k = key
        THEN [v |-> value, t |-> IF stdTTL = 0 THEN 0 ELSE time + stdTTL]
        ELSE cache[k]]


\* a del that empties the store
Mutant_C26_CacheDel(cache, key) == [k \in {} |-> cache[k]]

\* del(key)
CacheDel(cache, key) == [k \in DOMAIN cache \ {key} |-> cache[k]]

\* the periodic check (checkperiod)
CacheSweep(cache, time) ==
    [k \in {x \in DOMAIN cache : ~Expired(cache[x], time)} |-> cache[k]]

\* keys().length
KeyCount(cache) == Cardinality(DOMAIN cache)

(***************************************************************************)
(* Requests. Ids are handed out in arrival order. A finished request keeps *)
(* its response: the HTTP status and the JSON body.                        *)
(***************************************************************************)
ReqIds == 1..MaxRequests

Idle == [pc |-> "idle"]
\* a server that accepts a request only when none is waiting on a collaborator
Mutant_C30_Arrives(r) ==
    /\ req[r].pc = "idle"
    /\ \A q \in ReqIds \ {r} : req[q].pc \in {"idle", "done"}
    /\ r > 1 => req[r - 1].pc # "idle"

Arrives(r) ==
    /\ req[r].pc = "idle"
    /\ r > 1 => req[r - 1].pc # "idle"

\* a handler that logs a throttling error and sends nothing
Mutant_C40_Done(kind, body, status, json, hist) ==
    IF status = 429
    THEN [pc |-> "unanswered", kind |-> kind, body |-> body, h |-> hist]
    ELSE [pc |-> "done", kind |-> kind, body |-> body, status |-> status,
          json |-> json, h |-> hist]

\* the requests already answered
Done(kind, body, status, json, hist) ==
    [pc |-> "done", kind |-> kind, body |-> body, status |-> status,
     json |-> json, h |-> hist]

\* a thrown error, by its name
Thrown(name) == [threw |-> TRUE, name |-> name]

\* a thrown error with a message
ThrownMessage(name, message) == [threw |-> TRUE, name |-> name, message |-> message]

Returned(value) == [threw |-> FALSE, value |-> value]

\* the catch block of a route: 429 for throttling, else the route's default
Null == [ty |-> "null"]

(***************************************************************************)
(* routes/lesson.js: constants and helpers.                                *)
(***************************************************************************)
LessonCacheTTL == 604800
LessonAudioCacheTTL == 3600
MIN_GRADE == 1
MAX_GRADE == 12
MAX_AUDIO_LENGTH == 3000
MaxTopicLength == 200
MinLessonLength == 100
maxAttempts == 2

VALID_LANGUAGES ==
    <<"English", "Hindi", "Marathi", "Tamil", "Telugu", "Kannada", "Bengali",
      "Gujarati", "Malayalam">>

InSeq(seq, x) == \E i \in 1..Len(seq) : seq[i] = x

\* a validation that finds nothing wrong
Mutant_C7_validateInput(topic, grade, language) == << >>

\* validateInput: every violated rule, in the order tested
validateInput(topic, grade, language) ==
    (IF topic = "" \/ Len(trim(topic)) = 0
        THEN <<"Topic cannot be empty">> ELSE <<>>)
    \o (IF Len(topic) > MaxTopicLength
        THEN <<"Topic too long (max 200 characters)">> ELSE <<>>)
    \o (IF grade < MIN_GRADE \/ grade > MAX_GRADE
        THEN <<"Grade must be between " \o intToString(MIN_GRADE) \o " and "
                \o intToString(MAX_GRADE)>> ELSE <<>>)
    \o (IF ~InSeq(VALID_LANGUAGES, language)
        THEN <<"Language must be one of: " \o join(VALID_LANGUAGES, ", ")>>
        ELSE <<>>)

Lesson_getVoiceConfig(language) ==
    CASE language = "English" ->
            [voiceId |-> "Aditi", languageCode |-> "en-IN", engine |-> "standard"]
      [] language = "Hindi" ->
            [voiceId |-> "Aditi", languageCode |-> "hi-IN", engine |-> "standard"]
      [] OTHER ->
            [voiceId |-> "Aditi", languageCode |-> "hi-IN", engine |-> "standard",
             isFallback |-> (language # "English" /\ language # "Hindi")]

\* text.match(/<break[^>]*>/g) || [] : the pause directives, left to right
RECURSIVE matchBreakTags(_)
matchBreakTags(text) ==
    LET i == indexFrom(text, "<break", 1)
        j == IF i = 0 THEN 0 ELSE indexFrom(text, ">", i + 6)
    IN  IF i = 0 \/ j = 0 THEN <<>>
        ELSE <<SubSeq(text, i, j)>> \o matchBreakTags(SubSeq(text, j + 1, Len(text)))

placeholder(i) == "__SSML_TAG_" \o intToString(i) \o "__"

\* tags.forEach((tag, i) => cleanText = cleanText.replace(tag, placeholder(i)));
\* each replacement is evaluated before the next one starts
RECURSIVE protectTags(_, _, _)
protectTags(text, tags, i) ==
    IF i > Len(tags) THEN text
    ELSE CHOOSE out \in {protectTags(next, tags, i + 1) :
                         next \in {replaceFirst(text, tags[i], placeholder(i - 1))}} : TRUE

\* tags.forEach((tag, i) => cleanText = cleanText.replace(placeholder(i), tag))
RECURSIVE restoreTags(_, _, _)
restoreTags(text, tags, i) ==
    IF i > Len(tags) THEN text
    ELSE CHOOSE out \in {restoreTags(next, tags, i + 1) :
                         next \in {replaceFirst(text, placeholder(i - 1), tags[i])}} : TRUE

escapeXml(text) ==
    replaceAllChar(
      replaceAllChar(
        replaceAllChar(
          replaceAllChar(
            replaceAllChar(text, "&", "&amp;"),
            "<", "&lt;"),
          ">", "&gt;"),
        "\"", "&quot;"),
      "'", "&apos;")

Lesson_buildSSML(text) ==
    LET tags == matchBreakTags(text)
        cleanText == restoreTags(escapeXml(protectTags(text, tags, 1)), tags, 1)
    IN  trim("<speak><prosody rate=\"medium\" pitch=\"medium\">" \o cleanText
             \o "</prosody></speak>")

\* the end of the run of blanks that starts at position i (i - 1 if none)
blankRunEnd(s, i) ==
    LET k == FirstIn(i, Len(s), LAMBDA x : NonBlankAt(s, x))
    IN  IF k = 0 THEN Len(s) ELSE k - 1

\* the last newline of s in from..to, or 0
lastNewline(s, from, to) == LastIn(from, to, LAMBDA x : CharAt(s, x) = "\n")

\* where /\n\s*\n+/ first matches in s: a newline whose run of blanks holds
\* another newline; the match ends at the last newline of that run
BlankLineAt(s, i) ==
    CharAt(s, i) = "\n" /\ lastNewline(s, i + 1, blankRunEnd(s, i + 1)) # 0

\* rawText.split(/\n\s*\n+/)
RECURSIVE splitParagraphs(_)
splitParagraphs(s) ==
    LET i == FirstIn(1, Len(s), LAMBDA x : BlankLineAt(s, x))
        j == lastNewline(s, i + 1, blankRunEnd(s, i + 1))
    IN  IF i = 0 THEN <<s>>
        ELSE <<SubSeq(s, 1, i - 1)>> \o splitParagraphs(SubSeq(s, j + 1, Len(s)))

RECURSIVE skipDigits(_)
skipDigits(s) == IF s # "" /\ IsDigit(Head(s)) THEN skipDigits(Tail(s)) ELSE s

SectionLabels == <<"introduction", "explanation", "example", "summary">>

\* the length of the label /^(PARAGRAPH \d+|Introduction|Explanation|Example|Summary)/i
\* matches at the start of p, or -1
labelLength(p) ==
    LET low == toLowerCase(p)
    IN  IF startsWith(low, "paragraph ") /\ Len(p) > 10 /\ IsDigit(CharAt(p, 11))
        THEN Len(p) - Len(skipDigits(SubSeq(p, 11, Len(p))))
        ELSE IF \E k \in 1..Len(SectionLabels) : startsWith(low, SectionLabels[k])
        THEN Len(SectionLabels[CHOOSE k \in 1..Len(SectionLabels) :
                    /\ startsWith(low, SectionLabels[k])
                    /\ \A y \in 1..(k - 1) : ~startsWith(low, SectionLabels[y])])
        ELSE -1

\* p.replace(/^(PARAGRAPH \d+|Introduction|Explanation|Example|Summary):?\s*/i, '')
stripLabel(p) ==
    LET n == labelLength(p)
        rest == SubSeq(p, n + 1, Len(p))
    IN  IF n = -1 THEN p
        ELSE trimStart(IF rest # "" /\ Head(rest) = ":" THEN Tail(rest) ELSE rest)

SelectLonger(seq, n) == SelectSeq(seq, LAMBDA p : Len(p) > n)

\* padding with empty paragraphs
RECURSIVE Mutant_C12_padTo(_, _, _)
Mutant_C12_padTo(paragraphs, n, filler) ==
    IF Len(paragraphs) >= n THEN paragraphs
    ELSE Mutant_C12_padTo(Append(paragraphs, ""), n, filler)

RECURSIVE padTo(_, _, _)
padTo(paragraphs, n, filler) ==
    IF Len(paragraphs) >= n THEN paragraphs
    ELSE padTo(Append(paragraphs, filler), n, filler)

parseLesson(rawText, topic, gradeLevel) ==
    LET pieces == splitParagraphs(rawText)
        first == SelectLonger([i \in 1..Len(pieces) |-> trim(pieces[i])], 30)
        second == SelectLonger([i \in 1..Len(first) |-> trim(stripLabel(first[i]))], 20)
        paragraphs == padTo(second, 4,
            "Content about " \o topic \o " for grade " \o intToString(gradeLevel) \o ".")
    IN  [introduction |-> paragraphs[1], explanation |-> paragraphs[2],
         analogy |-> paragraphs[3], recap |-> paragraphs[4]]

generateFallbackQuiz(topic, grade, language) ==
    "Question 1: " \o topic \o " is important. True or False?\nAnswer: True\n\n"
    \o "Question 2: What describes " \o topic
    \o "?\nA) Important concept\nB) Unrelated\nC) Advanced only\nD) None\nAnswer: A\n\n"
    \o "Question 3: How to apply " \o topic \o "?\nAnswer: Explain practical uses."

generateFallbackContent(topic, grade, language) ==
    "Let's learn about " \o topic \o ".\n\n" \o topic
    \o " is an important concept for grade " \o intToString(grade)
    \o ".\n\nThink of " \o topic \o " in everyday life.\n\nIn summary, " \o topic
    \o " helps students learn."

(***************************************************************************)
(* The collaborators. A call returns one of the listed values or throws.   *)
(***************************************************************************)
LessonTextA ==
    "Let's learn about plants. Plants are living things that grow in soil.\n\n"
    \o "Plants make their food from sunlight, water & air inside the leaves.\n\n"
    \o "For example, a mango tree grows from one small seed in the ground.\n\n"
    \o "To summarize, plants grow, make food and give us fresh air."

LessonTextShort == "I cannot help."

\* a refusal of 158 characters in three paragraphs
LessonTextRefusal ==
    "Sorry, I cannot assist with that request at this time.\n\n"
    \o "The model is unable to respond to the prompt that was given.\n\n"
    \o "Please rephrase the topic and try again."

LessonTexts == {LessonTextA, LessonTextShort, LessonTextRefusal}

QuizTexts == {"Q1: Plants need light. True or False?"}

ErrorNames == {"ThrottlingException", "Error"}

TextOutcomes(texts) ==
    {Returned(t) : t \in texts} \cup {Thrown(n) : n \in ErrorNames}

\* the speech-synthesis collaborator: the audio is a function of the request
Synthesize(ssmlText, voiceConfig) ==
    "mp3[" \o voiceConfig.voiceId \o "," \o voiceConfig.languageCode \o "]" \o ssmlText

PollyOutcomes == {Returned("AudioStream"), Thrown("ThrottlingException")}

(***************************************************************************)
(* routes/lesson.js: POST /api/lesson                                      *)
(***************************************************************************)
\* what a request did, kept with it: whether it looked its key up, the number of
\* writes its cache had seen and the time then (sawOps, sawAt), whether the lookup
\* met an expired entry (stale), the count of writes after its own (putOps), its calls of the
\* text or image model (gen), how many of them returned under 100 characters
\* (short), the content handed to parseLesson or the answer as the
\* model returned it, its calls of speech synthesis
\* (polly), whether the fallback lesson was used, whether speech synthesis
\* failed, the name of the error that took it to the catch block of its route,
\* the members of the body the image model returned (shape), how often it
\* called buildSSML (built), whether its quiz call threw
NoHistory ==
    [looked |-> FALSE, sawOps |-> 0, sawAt |-> 0, stale |-> FALSE, putOps |-> 0,
     gen |-> 0, short |-> 0, content |-> "", polly |-> 0, fallback |-> FALSE,
     pollyFailed |-> FALSE, threw |-> "", shape |-> {}, built |-> 0,
     quizThrew |-> FALSE]

\* get(key) meets an entry whose time to live has elapsed
IsStale(cache, key, time) == key \in DOMAIN cache /\ Expired(cache[key], time)

LessonStats ==
    [lessonApiCalls |-> apiCallCount', lessonCacheHits |-> cacheHitCount',
     audioApiCalls |-> audioApiCalls', audioCacheHits |-> audioCacheHits']

\* err.message of a thrown error
messageOf(err) == IF "message" \in DOMAIN err THEN err.message ELSE ""

\* res.json of a catch block: details is err.message in a development build
\* and undefined otherwise, and an undefined member is left out of the body
WithDetails(json, err) ==
    IF NODE_ENV = "development" THEN [details |-> messageOf(err)] @@ json ELSE json

\* a catch block that answers every error alike
Mutant_C37_LessonError(err) ==
    [status |-> 500, json |-> WithDetails([error |-> "Failed to generate lesson"], err)]

\* the catch block of the route
LessonError(err) ==
    LET sent ==
        IF err.name = "ThrottlingException"
        THEN [status |-> 429,
              json |-> [error |-> "Too many requests. Please try again in a few seconds."]]
        ELSE [status |-> 500, json |-> [error |-> "Failed to generate lesson"]]
    IN  [status |-> sent.status, json |-> WithDetails(sent.json, err)]

LessonAudioRecord(audioBase64, voiceConfig, cached) ==
    IF "isFallback" \in DOMAIN voiceConfig
    THEN [audioBase64 |-> audioBase64, voiceUsed |-> voiceConfig.voiceId,
          languageCode |-> voiceConfig.languageCode,
          isFallback |-> voiceConfig.isFallback, cached |-> cached]
    ELSE [audioBase64 |-> audioBase64, voiceUsed |-> voiceConfig.voiceId,
          languageCode |-> voiceConfig.languageCode, cached |-> cached]

\* narration text cut to the budget without the marker
Mutant_C24_Lesson_audioText(text) ==
    IF Len(text) > MAX_AUDIO_LENGTH THEN substring(text, 0, MAX_AUDIO_LENGTH) ELSE text

\* generateLessonAudio: the text handed to buildSSML
Lesson_audioText(text) ==
    IF Len(text) > MAX_AUDIO_LENGTH
    THEN substring(text, 0, MAX_AUDIO_LENGTH) \o "..."
    ELSE text

\* generateAudioForText(text, lang, audioCacheKey) up to polly.send, called with
\* the lesson in hand; when the audio cache answers, the response follows at once
LessonAutoAudio(r, rec, lesson, cachedFlag) ==
    LET text == lesson.title \o ". " \o lesson.introduction \o " " \o lesson.explanation
        cacheKey == Lesson_getAudioCacheKey(rec.topic, rec.gradeLevel, rec.lang)
        voiceConfig == Lesson_getVoiceConfig(rec.lang)
        audioText == Lesson_audioText(text)
        ssmlText == Lesson_buildSSML(audioText)
    IN  IF IsLive(lessonAudioCache, cacheKey, now)
        THEN /\ audioCacheHits' = audioCacheHits + 1
             /\ UNCHANGED <<lessonAudioCache, audioApiCalls, upstream>>
             /\ req' = [req EXCEPT ![r] =
                    Done("lesson", rec.body, 200,
                         [lesson |-> lesson,
                          audio |-> [lessonAudioCache[cacheKey].v EXCEPT !.cached = TRUE],
                          cached |-> cachedFlag, stats |-> LessonStats],
                         rec.h)]
        ELSE /\ lessonAudioCache' = AfterGet(lessonAudioCache, cacheKey, now)
             /\ upstream' = [upstream EXCEPT !.polly = @ + 1]
             /\ UNCHANGED <<audioCacheHits, audioApiCalls>>
             /\ req' = [req EXCEPT ![r] =
                    [pc |-> "polly", kind |-> "lesson", body |-> rec.body,
                     topic |-> rec.topic, gradeLevel |-> rec.gradeLevel,
                     lang |-> rec.lang, lesson |-> lesson, cached |-> cachedFlag,
                     cacheKey |-> cacheKey, voiceConfig |-> voiceConfig,
                     ssmlText |-> ssmlText,
                     h |-> [rec.h EXCEPT !.polly = @ + 1, !.built = @ + 1]]]

\* from the request to the first await: validation, the lesson-cache lookup, and
\* on a hit the audio lookup; on a miss the first generateLesson call
LessonPost(r, body) ==
    /\ Arrives(r)
    /\ UNCHANGED <<now, doubtVars, audioVars, diagramVars, ops, probe, NODE_ENV, adminRes>>
    /\ IF ~Truthy(body.topic)
       THEN /\ req' = [req EXCEPT ![r] =
                    Done("lesson", body, 400, [error |-> "Topic is required"], NoHistory)]
            /\ UNCHANGED <<lessonVars, upstream>>
       ELSE
       LET topic == body.topic.s
           gradeLevel == gradeOrDefault(body.grade)
           lang == stringOr(body.language, "English")
           validationErrors == validateInput(topic, gradeLevel, lang)
           lessonCacheKey == getLessonCacheKey(topic, gradeLevel, lang)
           hist == [NoHistory EXCEPT !.looked = TRUE,
                                     !.sawOps = ops.lesson, !.sawAt = now,
                                     !.stale = IsStale(lessonCache, lessonCacheKey, now)]
           rec == [body |-> body, topic |-> topic, gradeLevel |-> gradeLevel,
                   lang |-> lang, h |-> hist]
       IN  IF Len(validationErrors) > 0
           THEN /\ req' = [req EXCEPT ![r] =
                        Done("lesson", body, 400, [errors |-> validationErrors], NoHistory)]
                /\ UNCHANGED <<lessonVars, upstream>>
           ELSE IF IsLive(lessonCache, lessonCacheKey, now)
           THEN /\ cacheHitCount' = cacheHitCount + 1
                /\ UNCHANGED <<lessonCache, apiCallCount>>
                /\ LessonAutoAudio(r, rec, lessonCache[lessonCacheKey].v, TRUE)
           ELSE /\ lessonCache' = AfterGet(lessonCache, lessonCacheKey, now)
                /\ upstream' = [upstream EXCEPT !.text = @ + 1]
                /\ UNCHANGED <<lessonAudioCache, apiCallCount, cacheHitCount,
                               audioApiCalls, audioCacheHits>>
                /\ req' = [req EXCEPT ![r] =
                        [pc |-> "generate", kind |-> "lesson", body |-> body,
                         topic |-> topic, gradeLevel |-> gradeLevel, lang |-> lang,
                         attempts |-> 0, h |-> [hist EXCEPT !.gen = 1]]]

\* a settled attempt leaves the loop with its content
\* (a text that is neither empty nor under 100 characters)
Mutant_C13_LessonUsable(out) == ~out.threw /\ out.value # ""

LessonUsable(out) ==
    ~out.threw /\ out.value # "" /\ Len(out.value) >= MinLessonLength

\* generateLesson settles: the rest of the retry loop, then parseLesson and the
\* generateQuiz call, or the catch block when the last attempt threw
LessonGenerateReturns(r, out) ==
    /\ req[r].pc = "generate"
    /\ req[r].kind = "lesson"
    /\ UNCHANGED <<now, lessonVars, doubtVars, audioVars, diagramVars, ops, probe, NODE_ENV, adminRes>>
    /\ LET rec == req[r]
           attempts == rec.attempts + 1
           usable == LessonUsable(out)
           retry == ~usable /\ attempts < maxAttempts
           lessonContent ==
               IF usable THEN out.value
               ELSE generateFallbackContent(rec.topic, rec.gradeLevel, rec.lang)
           short == IF ~out.threw /\ Len(out.value) < 100
                    THEN rec.h.short + 1 ELSE rec.h.short
       IN  IF out.threw /\ attempts >= maxAttempts
           THEN /\ req' = [req EXCEPT ![r] =
                        Done("lesson", rec.body, LessonError(out).status,
                             LessonError(out).json, [rec.h EXCEPT !.threw = out.name])]
                /\ UNCHANGED upstream
           ELSE IF retry
           THEN /\ req' = [req EXCEPT ![r] =
                        [rec EXCEPT !.attempts = attempts, !.h.gen = @ + 1,
                                    !.h.short = short]]
                /\ upstream' = [upstream EXCEPT !.text = @ + 1]
           ELSE /\ req' = [req EXCEPT ![r] =
                        [pc |-> "quiz", kind |-> "lesson", body |-> rec.body,
                         topic |-> rec.topic, gradeLevel |-> rec.gradeLevel,
                         lang |-> rec.lang,
                         parsedLesson |-> parseLesson(lessonContent, rec.topic,
                                                      rec.gradeLevel),
                         h |-> [rec.h EXCEPT !.fallback = ~usable,
                                             !.short = short,
                                             !.content = lessonContent]]]
                /\ upstream' = [upstream EXCEPT !.text = @ + 1]

\* a store that leaves the fallback lesson out
Mutant_C15_LessonCacheSet(rec, lessonCacheKey, lesson) ==
    IF rec.h.fallback THEN lessonCache
    ELSE CacheSet(lessonCache, lessonCacheKey, lesson, LessonCacheTTL, now)

\* lessonCache.set(lessonCacheKey, lesson), whatever the content came from
LessonCacheSet(rec, lessonCacheKey, lesson) ==
    CacheSet(lessonCache, lessonCacheKey, lesson, LessonCacheTTL, now)

\* a counter of the calls of the text model the request made, the quiz included
Mutant_C36_LessonCounted(rec) == apiCallCount + rec.h.gen + 1

\* apiCallCount++
LessonCounted(rec) == apiCallCount + 1

\* a generateQuiz without the catch block: the quiz of a failed call is empty
Mutant_C39_generateQuiz(rec, out) == IF out.threw THEN "" ELSE out.value

\* generateQuiz: the text of the model, or the fallback quiz when the call threw
generateQuiz(rec, out) ==
    IF out.threw
    THEN generateFallbackQuiz(rec.topic, rec.gradeLevel, rec.lang)
    ELSE out.value

\* generateQuiz settles: the lesson is built, stored and counted, then the audio
LessonQuizReturns(r, out) ==
    /\ req[r].pc = "quiz"
    /\ UNCHANGED <<now, doubtVars, audioVars, diagramVars, probe, NODE_ENV, adminRes>>
    /\ LET rec == req[r]
           quiz == generateQuiz(rec, out)
           lesson ==
               [title |-> rec.topic \o " - Grade " \o intToString(rec.gradeLevel),
                introduction |-> rec.parsedLesson.introduction,
                explanation |-> rec.parsedLesson.explanation,
                analogy |-> rec.parsedLesson.analogy,
                recap |-> rec.parsedLesson.recap,
                quiz |-> quiz, language |-> rec.lang, grade |-> rec.gradeLevel,
                timestamp |-> now]
           lessonCacheKey == getLessonCacheKey(rec.topic, rec.gradeLevel, rec.lang)
       IN  /\ lessonCache' = LessonCacheSet(rec, lessonCacheKey, lesson)
           /\ ops' = [ops EXCEPT !.lesson = @ + 1]
           /\ apiCallCount' = LessonCounted(rec)
           /\ UNCHANGED cacheHitCount
           /\ LessonAutoAudio(r, [rec EXCEPT !.h.putOps = ops'.lesson,
                                              !.h.quizThrew = out.threw],
                              lesson, FALSE)

\* the answer to request rec when generateAudioForText threw audioErr: the
\* inner catch logs the error and leaves audioData null
LessonAudioFailed(rec, audioErr) ==
    Done("lesson", rec.body, 200,
         [lesson |-> rec.lesson, audio |-> Null,
          cached |-> rec.cached, stats |-> LessonStats],
         [rec.h EXCEPT !.pollyFailed = TRUE])

\* polly.send settles: the audio is stored and counted, or the failure is
\* swallowed; then the response
LessonPollyReturns(r, out) ==
    /\ req[r].pc = "polly"
    /\ req[r].kind = "lesson"
    /\ UNCHANGED <<now, lessonCache, apiCallCount, cacheHitCount, audioCacheHits,
                   doubtVars, audioVars, diagramVars, upstream, probe, NODE_ENV, adminRes>>
    /\ LET rec == req[r]
           result == LessonAudioRecord(Synthesize(rec.ssmlText, rec.voiceConfig),
                                       rec.voiceConfig, FALSE)
       IN  IF out.threw
           THEN /\ UNCHANGED <<lessonAudioCache, audioApiCalls, ops>>
                /\ req' = [req EXCEPT ![r] = LessonAudioFailed(rec, out)]
           ELSE /\ lessonAudioCache' = CacheSet(lessonAudioCache, rec.cacheKey, result,
                                                LessonAudioCacheTTL, now)
                /\ ops' = [ops EXCEPT !.lessonAudio = @ + 1]
                /\ audioApiCalls' = audioApiCalls + 1
                /\ req' = [req EXCEPT ![r] =
                        Done("lesson", rec.body, 200,
                             [lesson |-> rec.lesson, audio |-> result,
                              cached |-> rec.cached, stats |-> LessonStats],
                             rec.h)]

\* DELETE /api/lesson/cache
LessonClearCache ==
    /\ ops.flushes < MaxFlushes
    /\ KeyCount(lessonCache) + KeyCount(lessonAudioCache) > 0
    /\ lessonCache' = EmptyCache
    /\ lessonAudioCache' = EmptyCache
    /\ ops' = [ops EXCEPT !.flushes = @ + 1, !.lesson = @ + 1, !.lessonAudio = @ + 1]
    /\ adminRes' = [message |-> "All caches cleared",
                    cleared |-> [lessons |-> KeyCount(lessonCache),
                                 audio |-> KeyCount(lessonAudioCache)]]
    /\ UNCHANGED <<now, req, apiCallCount, cacheHitCount, audioApiCalls,
                   audioCacheHits, doubtVars, audioVars, diagramVars, upstream, probe, NODE_ENV>>

\* the periodic checks of the two stores
LessonCacheCheck ==
    /\ CacheSweep(lessonCache, now) # lessonCache
    /\ lessonCache' = CacheSweep(lessonCache, now)
    /\ UNCHANGED <<now, req, lessonAudioCache, apiCallCount, cacheHitCount,
                   audioApiCalls, audioCacheHits, doubtVars, audioVars, diagramVars,
                   upstream, ops, probe, NODE_ENV, adminRes>>

LessonAudioCacheCheck ==
    /\ CacheSweep(lessonAudioCache, now) # lessonAudioCache
    /\ lessonAudioCache' = CacheSweep(lessonAudioCache, now)
    /\ UNCHANGED <<now, req, lessonCache, apiCallCount, cacheHitCount,
                   audioApiCalls, audioCacheHits, doubtVars, audioVars, diagramVars,
                   upstream, ops, probe, NODE_ENV, adminRes>>

(***************************************************************************)
(* The doubt route: POST /api/doubt                                        *)
(***************************************************************************)
DoubtCacheTTL == 3600
DoubtAudioCacheTTL == 3600
MaxQuestionLength == 500
MinAnswerLength == 20
Doubt_maxLength == 3000

Doubt_getVoiceConfig(language) ==
    IF language = "English"
    THEN [voiceId |-> "Aditi", languageCode |-> "en-IN", engine |-> "standard"]
    ELSE [voiceId |-> "Aditi", languageCode |-> "hi-IN", engine |-> "standard"]

Doubt_buildSSML(text) ==
    "<speak><prosody rate=\"medium\" pitch=\"medium\">" \o escapeXml(text)
    \o "</prosody></speak>"

DoubtStats ==
    [doubtApiCalls |-> doubtApiCalls', doubtCacheHits |-> doubtCacheHits',
     doubtAudioApiCalls |-> doubtAudioApiCalls',
     doubtAudioCacheHits |-> doubtAudioCacheHits']

\* the catch block of the route
DoubtError(err) ==
    LET sent ==
        IF err.name = "ThrottlingException"
        THEN [status |-> 429, json |-> [error |-> "Too many requests. Please wait a moment."]]
        ELSE IF err.name = "ValidationException"
        THEN [status |-> 400, json |-> [error |-> "Invalid question format"]]
        ELSE [status |-> 500, json |-> [error |-> "Failed to answer question"]]
    IN  [status |-> sent.status, json |-> WithDetails(sent.json, err)]

\* generateDoubtAudio: the text handed to buildSSML
Doubt_audioText(text) ==
    IF Len(text) > Doubt_maxLength
    THEN substring(text, 0, Doubt_maxLength) \o "..."
    ELSE text

\* generateDoubtAudio(text, language, cacheKey) up to polly.send, called with the
\* answer in hand; when the audio cache answers, the response follows at once
DoubtAutoAudio(r, rec, answer, cachedFlag) ==
    LET audioCacheKey == getDoubtAudioCacheKey(answer, rec.lang)
        voiceConfig == Doubt_getVoiceConfig(rec.lang)
        audioText == Doubt_audioText(answer)
        ssmlText == Doubt_buildSSML(audioText)
    IN  IF IsLive(doubtAudioCache, audioCacheKey, now)
        THEN /\ doubtAudioCacheHits' = doubtAudioCacheHits + 1
             /\ UNCHANGED <<doubtAudioCache, doubtAudioApiCalls, upstream>>
             /\ req' = [req EXCEPT ![r] =
                    Done("doubt", rec.body, 200,
                         [answer |-> answer,
                          audio |-> [doubtAudioCache[audioCacheKey].v EXCEPT !.cached = TRUE],
                          cached |-> cachedFlag, stats |-> DoubtStats],
                         rec.h)]
        ELSE /\ doubtAudioCache' = AfterGet(doubtAudioCache, audioCacheKey, now)
             /\ upstream' = [upstream EXCEPT !.polly = @ + 1]
             /\ UNCHANGED <<doubtAudioCacheHits, doubtAudioApiCalls>>
             /\ req' = [req EXCEPT ![r] =
                    [pc |-> "polly", kind |-> "doubt", body |-> rec.body,
                     lang |-> rec.lang, answer |-> answer, cached |-> cachedFlag,
                     cacheKey |-> audioCacheKey, voiceConfig |-> voiceConfig,
                     ssmlText |-> ssmlText,
                     h |-> [rec.h EXCEPT !.polly = @ + 1, !.built = @ + 1]]]

\* a prompt that leaves the related topic out
Mutant_C34_Doubt_prompt(question, topic, gradeLevel, lang) ==
    "You are a helpful teacher for grade " \o intToString(gradeLevel) \o " students.\n"
    \o (IF lang # "English"
        THEN "CRITICAL: Write your ENTIRE answer in " \o lang \o " language only."
        ELSE "")
    \o "\n\nStudent's Question: " \o question \o "\n"
    \o "\n\nProvide a clear, simple answer in " \o lang \o " suitable for grade "
    \o intToString(gradeLevel) \o " students."

\* the prompt of the answer up to the list of instructions, which is the same
\* in every prompt
Doubt_prompt(question, topic, gradeLevel, lang) ==
    "You are a helpful teacher for grade " \o intToString(gradeLevel) \o " students.\n"
    \o (IF lang # "English"
        THEN "CRITICAL: Write your ENTIRE answer in " \o lang \o " language only."
        ELSE "")
    \o "\n\nStudent's Question: " \o question \o "\n"
    \o (IF Truthy(topic) THEN "Related Topic: " \o topic.s ELSE "")
    \o "\n\nProvide a clear, simple answer in " \o lang \o " suitable for grade "
    \o intToString(gradeLevel) \o " students."

\* from the request to the first await: the two checks of the question, the
\* answer-cache lookup, and on a hit the audio lookup; on a miss the model call
DoubtPost(r, body) ==
    /\ Arrives(r)
    /\ UNCHANGED <<now, lessonVars, audioVars, diagramVars, ops, probe, NODE_ENV, adminRes>>
    /\ IF ~Truthy(body.question) \/ Len(trim(body.question.s)) = 0
       THEN /\ req' = [req EXCEPT ![r] =
                    Done("doubt", body, 400, [error |-> "Question is required"], NoHistory)]
            /\ UNCHANGED <<doubtVars, upstream>>
       ELSE IF Len(body.question.s) > MaxQuestionLength
       THEN /\ req' = [req EXCEPT ![r] =
                    Done("doubt", body, 400,
                         [error |-> "Question too long (max 500 characters)",
                          maxLength |-> MaxQuestionLength,
                          currentLength |-> Len(body.question.s)], NoHistory)]
            /\ UNCHANGED <<doubtVars, upstream>>
       ELSE
       LET question == body.question.s
           gradeLevel == gradeOrDefault(body.grade)
           lang == stringOr(body.language, "English")
           doubtCacheKey == getDoubtCacheKey(question, gradeLevel, lang)
           hist == [NoHistory EXCEPT !.looked = TRUE,
                                     !.sawOps = ops.doubt, !.sawAt = now,
                                     !.stale = IsStale(doubtCache, doubtCacheKey, now)]
           rec == [body |-> body, lang |-> lang, h |-> hist]
       IN  IF IsLive(doubtCache, doubtCacheKey, now)
           THEN /\ doubtCacheHits' = doubtCacheHits + 1
                /\ UNCHANGED <<doubtCache, doubtApiCalls>>
                /\ DoubtAutoAudio(r, rec, doubtCache[doubtCacheKey].v, TRUE)
           ELSE /\ doubtCache' = AfterGet(doubtCache, doubtCacheKey, now)
                /\ upstream' = [upstream EXCEPT !.text = @ + 1]
                /\ UNCHANGED <<doubtAudioCache, doubtApiCalls, doubtCacheHits,
                               doubtAudioApiCalls, doubtAudioCacheHits>>
                /\ req' = [req EXCEPT ![r] =
                        [pc |-> "answer", kind |-> "doubt", body |-> body,
                         lang |-> lang, doubtCacheKey |-> doubtCacheKey,
                         prompt |-> Doubt_prompt(question,
                                        IF "topic" \in DOMAIN body THEN body.topic
                                        ELSE JUndef,
                                        gradeLevel, lang),
                         h |-> [hist EXCEPT !.gen = 1]]]

\* every answer that is not empty is good enough
Mutant_C35_DoubtUsable(cleanAnswer) == cleanAnswer # ""

\* !(!cleanAnswer || cleanAnswer.length < 20)
DoubtUsable(cleanAnswer) == cleanAnswer # "" /\ Len(cleanAnswer) >= MinAnswerLength

\* the model call settles: a usable answer is stored and counted, then the audio;
\* a thrown error or a short answer goes to the catch block
DoubtAnswerReturns(r, out) ==
    /\ req[r].pc = "answer"
    /\ req[r].kind = "doubt"
    /\ UNCHANGED <<now, lessonVars, audioVars, diagramVars, probe, NODE_ENV, adminRes>>
    /\ LET rec == req[r]
           cleanAnswer == IF out.threw THEN "" ELSE trim(out.value)
           failure ==
               IF out.threw THEN DoubtError(out)
               ELSE DoubtError(ThrownMessage("Error",
                                             "Generated answer too short or empty"))
       IN  IF out.threw \/ ~DoubtUsable(cleanAnswer)
           THEN /\ req' = [req EXCEPT ![r] =
                        Done("doubt", rec.body, failure.status, failure.json,
                             [rec.h EXCEPT !.threw = IF out.threw THEN out.name
                                                     ELSE "Error",
                                           !.content = IF out.threw THEN ""
                                                       ELSE out.value])]
                /\ UNCHANGED <<doubtVars, upstream, ops>>
           ELSE /\ doubtCache' = CacheSet(doubtCache, rec.doubtCacheKey, cleanAnswer,
                                          DoubtCacheTTL, now)
                /\ ops' = [ops EXCEPT !.doubt = @ + 1]
                /\ doubtApiCalls' = doubtApiCalls + 1
                /\ UNCHANGED doubtCacheHits
                /\ DoubtAutoAudio(r, [rec EXCEPT !.h.putOps = ops'.doubt,
                                                 !.h.content = out.value],
                                  cleanAnswer, FALSE)

\* an audio failure that reaches the catch block of the route
Mutant_C5_DoubtAudioFailed(rec, audioErr) ==
    Done("doubt", rec.body, DoubtError(audioErr).status, DoubtError(audioErr).json,
         [rec.h EXCEPT !.pollyFailed = TRUE])

\* the answer to request rec when generateDoubtAudio threw audioErr: the inner
\* catch logs the error and leaves audioData null
DoubtAudioFailed(rec, audioErr) ==
    Done("doubt", rec.body, 200,
         [answer |-> rec.answer, audio |-> Null,
          cached |-> rec.cached, stats |-> DoubtStats],
         [rec.h EXCEPT !.pollyFailed = TRUE])

\* polly.send settles: the audio is stored and counted, or the failure is
\* swallowed; then the response
DoubtPollyReturns(r, out) ==
    /\ req[r].pc = "polly"
    /\ req[r].kind = "doubt"
    /\ UNCHANGED <<now, doubtCache, doubtApiCalls, doubtCacheHits, doubtAudioCacheHits,
                   lessonVars, audioVars, diagramVars, upstream, probe, NODE_ENV, adminRes>>
    /\ LET rec == req[r]
           result == [audioBase64 |-> Synthesize(rec.ssmlText, rec.voiceConfig),
                      voiceUsed |-> rec.voiceConfig.voiceId,
                      languageCode |-> rec.voiceConfig.languageCode,
                      cached |-> FALSE]
       IN  IF out.threw
           THEN /\ UNCHANGED <<doubtAudioCache, doubtAudioApiCalls, ops>>
                /\ req' = [req EXCEPT ![r] = DoubtAudioFailed(rec, out)]
           ELSE /\ doubtAudioCache' = CacheSet(doubtAudioCache, rec.cacheKey, result,
                                               DoubtAudioCacheTTL, now)
                /\ ops' = [ops EXCEPT !.doubtAudio = @ + 1]
                /\ doubtAudioApiCalls' = doubtAudioApiCalls + 1
                /\ req' = [req EXCEPT ![r] =
                        Done("doubt", rec.body, 200,
                             [answer |-> rec.answer, audio |-> result,
                              cached |-> rec.cached, stats |-> DoubtStats],
                             rec.h)]

\* DELETE /api/doubt/cache
DoubtClearCache ==
    /\ ops.flushes < MaxFlushes
    /\ KeyCount(doubtCache) + KeyCount(doubtAudioCache) > 0
    /\ doubtCache' = EmptyCache
    /\ doubtAudioCache' = EmptyCache
    /\ ops' = [ops EXCEPT !.flushes = @ + 1, !.doubt = @ + 1, !.doubtAudio = @ + 1]
    /\ adminRes' = [message |-> "Doubt caches cleared",
                    cleared |-> [doubts |-> KeyCount(doubtCache),
                                 audio |-> KeyCount(doubtAudioCache)]]
    /\ UNCHANGED <<now, req, doubtApiCalls, doubtCacheHits, doubtAudioApiCalls,
                   doubtAudioCacheHits, lessonVars, audioVars, diagramVars, upstream,
                   probe, NODE_ENV>>

\* the periodic checks of the two stores
DoubtCacheCheck ==
    /\ CacheSweep(doubtCache, now) # doubtCache
    /\ doubtCache' = CacheSweep(doubtCache, now)
    /\ UNCHANGED <<now, req, doubtAudioCache, doubtApiCalls, doubtCacheHits,
                   doubtAudioApiCalls, doubtAudioCacheHits, lessonVars, audioVars,
                   diagramVars, upstream, ops, probe, NODE_ENV, adminRes>>

DoubtAudioCacheCheck ==
    /\ CacheSweep(doubtAudioCache, now) # doubtAudioCache
    /\ doubtAudioCache' = CacheSweep(doubtAudioCache, now)
    /\ UNCHANGED <<now, req, doubtCache, doubtApiCalls, doubtCacheHits,
                   doubtAudioApiCalls, doubtAudioCacheHits, lessonVars, audioVars,
                   diagramVars, upstream, ops, probe, NODE_ENV, adminRes>>

(***************************************************************************)
(* The audio route: POST /api/audio                                        *)
(***************************************************************************)
AudioCacheTTL == 86400
MAX_TEXT_LENGTH == 3000
MAX_SSML_LENGTH == 6000

PollySupported == {"English", "Hindi"}

FallbackLanguages ==
    {"Marathi", "Tamil", "Telugu", "Bengali", "Gujarati", "Kannada", "Malayalam"}

\* getVoiceConfig(language, customVoiceId); every voice has the standard engine
Audio_getVoiceConfig(language, customVoiceId) ==
    [voiceId |-> stringOr(customVoiceId, "Aditi"),
     languageCode |-> IF language = "Hindi" \/ language \in FallbackLanguages
                      THEN "hi-IN" ELSE "en-IN",
     engine |-> "standard",
     originalLanguage |-> language,
     usingFallback |-> language \notin PollySupported]

\* markup built from the markup of the text
Mutant_C29_Audio_buildSSML(text) ==
    LET tags == matchBreakTags(text)
        cleanText == restoreTags(escapeXml(protectTags(text, tags, 1)), tags, 1)
    IN  "<speak>\n      <prosody rate=\"medium\" pitch=\"medium\">\n        "
        \o trim("\n    <speak>\n      <prosody rate=\"medium\" pitch=\"medium\">\n        "
                \o cleanText \o "\n      </prosody>\n    </speak>\n  ")
        \o "\n      </prosody>\n    </speak>"

Audio_buildSSML(text) ==
    LET tags == matchBreakTags(text)
        cleanText == restoreTags(escapeXml(protectTags(text, tags, 1)), tags, 1)
    IN  trim("\n    <speak>\n      <prosody rate=\"medium\" pitch=\"medium\">\n        "
             \o cleanText \o "\n      </prosody>\n    </speak>\n  ")

\* text.replace(/<[^>]*>/g, '')
RECURSIVE stripTags(_)
stripTags(text) ==
    LET i == indexFrom(text, "<", 1)
        j == IF i = 0 THEN 0 ELSE indexFrom(text, ">", i + 1)
    IN  IF i = 0 \/ j = 0 THEN text
        ELSE SubSeq(text, 1, i - 1) \o stripTags(SubSeq(text, j + 1, Len(text)))

\* plainText.split(/\s+/).filter(w => w.length > 0).length
countWords(s) ==
    Cardinality({i \in 1..Len(s) :
                    NonBlankAt(s, i) /\ (i = 1 \/ ~NonBlankAt(s, i - 1))})

\* the pause of one directive in milliseconds: /time="(\d+)(ms|s)"/, 0 without it
breakMillis(tag) ==
    LET DigitsFrom(k) == Len(tag) - k + 1 - Len(skipDigits(SubSeq(tag, k, Len(tag))))
        MatchAt(i) ==
            /\ SubSeq(tag, i, i + 5) = "time=\""
            /\ DigitsFrom(i + 6) > 0
            /\ i + 6 + DigitsFrom(i + 6) <= Len(tag)
            /\ \/ CharAt(tag, i + 6 + DigitsFrom(i + 6)) = "s"
               \/ SubSeq(tag, i + 6 + DigitsFrom(i + 6), i + 7 + DigitsFrom(i + 6)) = "ms"
        i == FirstIn(1, Len(tag) - 6, MatchAt)
        n == DigitsFrom(i + 6)
        value == digitsValue(SubSeq(tag, i + 6, i + 5 + n), 0)
    IN  IF i = 0 THEN 0
        ELSE IF CharAt(tag, i + 6 + n) = "s" THEN 1000 * value ELSE value

RECURSIVE sumBreaks(_)
sumBreaks(tags) ==
    IF tags = <<>> THEN 0 ELSE breakMillis(Head(tags)) + sumBreaks(Tail(tags))

\* estimateDuration(text): 150 words a minute plus the pauses, each part rounded
\* up (the quotients are exact in double arithmetic for the texts used here)
estimateDuration(text) ==
    ((2 * countWords(stripTags(text)) + 4) \div 5)
    + ((sumBreaks(matchBreakTags(text)) + 999) \div 1000)

\* ((hits / total) * 100).toFixed(1)
toFixed1(hits, total) ==
    LET tenths == (2000 * hits + total) \div (2 * total)
    IN  natToString(tenths \div 10) \o "." \o natToString(tenths % 10)

\* a catch block that knows no throttling
Mutant_C21_AudioError(err) ==
    LET sent ==
        LET code == IF "code" \in DOMAIN err THEN err.code ELSE ""
        IN  IF code = "TextLengthExceededException"
            THEN [status |-> 400, json |-> [error |-> "Text is too long for audio generation"]]
            ELSE IF code = "InvalidSsmlException"
            THEN [status |-> 400,
                  json |-> [error |-> "Invalid text format for speech synthesis"]]
            ELSE [status |-> 500, json |-> [error |-> "Failed to generate audio"]]
    IN  [status |-> sent.status, json |-> WithDetails(sent.json, err)]

\* the catch block of the route
AudioError(err) ==
    LET sent ==
        LET code == IF "code" \in DOMAIN err THEN err.code ELSE ""
        IN  IF code = "TextLengthExceededException"
            THEN [status |-> 400, json |-> [error |-> "Text is too long for audio generation"]]
            ELSE IF code = "InvalidSsmlException"
            THEN [status |-> 400,
                  json |-> [error |-> "Invalid text format for speech synthesis"]]
            ELSE IF err.name = "ThrottlingException"
            THEN [status |-> 429,
                  json |-> [error |->
                      "Too many audio generation requests. Please wait a moment."]]
            ELSE [status |-> 500, json |-> [error |-> "Failed to generate audio"]]
    IN  [status |-> sent.status, json |-> WithDetails(sent.json, err)]

\* from the request to polly.send: the checks of the text, the cache lookup and
\* the check of the markup length
AudioPost(r, body) ==
    /\ Arrives(r)
    /\ UNCHANGED <<now, lessonVars, doubtVars, diagramVars, ops, probe, NODE_ENV, adminRes>>
    /\ IF ~Truthy(body.text)
       THEN /\ req' = [req EXCEPT ![r] =
                    Done("audio", body, 400, [error |-> "Text is required"], NoHistory)]
            /\ UNCHANGED <<audioVars, upstream>>
       ELSE
       LET cleanText == trim(body.text.s)
           voiceConfig == Audio_getVoiceConfig(stringOr(body.language, "English"),
                                               body.voiceId)
           cacheKey == Audio_getAudioCacheKey(cleanText, voiceConfig.voiceId,
                                              voiceConfig.languageCode)
           ssmlText == Audio_buildSSML(cleanText)
           hist == [NoHistory EXCEPT !.looked = TRUE,
                                     !.sawOps = ops.audio, !.sawAt = now,
                                     !.stale = IsStale(audioCache, cacheKey, now)]
       IN  IF Len(cleanText) > MAX_TEXT_LENGTH
           THEN /\ req' = [req EXCEPT ![r] =
                        Done("audio", body, 400,
                             [error |-> "Text too long. Maximum "
                                        \o intToString(MAX_TEXT_LENGTH)
                                        \o " characters allowed.",
                              maxLength |-> MAX_TEXT_LENGTH,
                              currentLength |-> Len(cleanText),
                              suggestion |-> "Try generating audio for shorter sections"],
                             NoHistory)]
                /\ UNCHANGED <<audioVars, upstream>>
           ELSE IF Len(cleanText) = 0
           THEN /\ req' = [req EXCEPT ![r] =
                        Done("audio", body, 400, [error |-> "Text cannot be empty"],
                             NoHistory)]
                /\ UNCHANGED <<audioVars, upstream>>
           ELSE IF IsLive(audioCache, cacheKey, now)
           THEN /\ audioCacheHitCount' = audioCacheHitCount + 1
                /\ UNCHANGED <<audioCache, audioApiCallCount, upstream>>
                /\ req' = [req EXCEPT ![r] =
                        Done("audio", body, 200,
                             [audioBase64 |-> audioCache[cacheKey].v.audioBase64,
                              voiceUsed |-> voiceConfig.voiceId,
                              language |-> voiceConfig.languageCode,
                              duration |-> audioCache[cacheKey].v.duration,
                              cached |-> TRUE,
                              stats |-> [apiCalls |-> audioApiCallCount,
                                         cacheHits |-> audioCacheHitCount',
                                         savingsPercent |->
                                             toFixed1(audioCacheHitCount',
                                                 audioApiCallCount + audioCacheHitCount')
                                             \o "%"]],
                             hist)]
           ELSE IF Len(ssmlText) > MAX_SSML_LENGTH
           THEN /\ audioCache' = AfterGet(audioCache, cacheKey, now)
                /\ UNCHANGED <<audioApiCallCount, audioCacheHitCount, upstream>>
                /\ req' = [req EXCEPT ![r] =
                        Done("audio", body, 400,
                             [error |-> "Text with SSML formatting exceeds maximum length",
                              suggestion |-> "Try shorter text"],
                             [hist EXCEPT !.built = 1])]
           ELSE /\ audioCache' = AfterGet(audioCache, cacheKey, now)
                /\ upstream' = [upstream EXCEPT !.polly = @ + 1]
                /\ UNCHANGED <<audioApiCallCount, audioCacheHitCount>>
                /\ req' = [req EXCEPT ![r] =
                        [pc |-> "polly", kind |-> "audio", body |-> body,
                         cleanText |-> cleanText, voiceConfig |-> voiceConfig,
                         cacheKey |-> cacheKey, ssmlText |-> ssmlText,
                         h |-> [hist EXCEPT !.polly = 1, !.built = 1]]]

\* a set that passes a time to live of its own
Mutant_C27_AudioCacheSet(cacheKey, value) ==
    CacheSet(audioCache, cacheKey, value, LessonAudioCacheTTL, now)

\* audioCache.set(cacheKey, { audioBase64, duration })
AudioCacheSet(cacheKey, value) ==
    CacheSet(audioCache, cacheKey, value, AudioCacheTTL, now)

\* polly.send settles: the audio is stored and counted and the response sent, or
\* the catch block answers
AudioPollyReturns(r, out) ==
    /\ req[r].pc = "polly"
    /\ req[r].kind = "audio"
    /\ UNCHANGED <<now, audioCacheHitCount, lessonVars, doubtVars, diagramVars,
                   upstream, probe, NODE_ENV, adminRes>>
    /\ LET rec == req[r]
           audioBase64 == Synthesize(rec.ssmlText, rec.voiceConfig)
           duration == estimateDuration(rec.cleanText)
           savingsPercent ==
               IF audioCacheHitCount > 0
               THEN toFixed1(audioCacheHitCount, audioApiCallCount' + audioCacheHitCount)
               ELSE "0"
           stats == [apiCalls |-> audioApiCallCount', cacheHits |-> audioCacheHitCount,
                     savingsPercent |-> savingsPercent \o "%"]
           common == [audioBase64 |-> audioBase64, voiceUsed |-> rec.voiceConfig.voiceId,
                      language |-> rec.voiceConfig.languageCode, duration |-> duration,
                      cached |-> FALSE, usingFallback |-> rec.voiceConfig.usingFallback,
                      stats |-> stats]
       IN  IF out.threw
           THEN /\ UNCHANGED <<audioCache, audioApiCallCount, ops>>
                /\ req' = [req EXCEPT ![r] =
                        Done("audio", rec.body, AudioError(out).status,
                             AudioError(out).json,
                             [rec.h EXCEPT !.pollyFailed = TRUE, !.threw = out.name])]
           ELSE /\ audioCache' = AudioCacheSet(rec.cacheKey,
                                          [audioBase64 |-> audioBase64, duration |-> duration])
                /\ ops' = [ops EXCEPT !.audio = @ + 1]
                /\ audioApiCallCount' = audioApiCallCount + 1
                /\ req' = [req EXCEPT ![r] =
                        Done("audio", rec.body, 200,
                             IF rec.voiceConfig.usingFallback
                             THEN [k \in DOMAIN common \cup {"fallbackMessage"} |->
                                     IF k = "fallbackMessage"
                                     THEN "Audio generated in Hindi as "
                                          \o rec.voiceConfig.originalLanguage
                                          \o " is not yet supported by AWS Polly"
                                     ELSE common[k]]
                             ELSE common,
                             [rec.h EXCEPT !.putOps = ops'.audio])]

\* a clearing endpoint that also starts the counters of the route again
Mutant_C23_AudioClearCache ==
    /\ ops.flushes < MaxFlushes
    /\ KeyCount(audioCache) > 0
    /\ audioCache' = EmptyCache
    /\ audioApiCallCount' = 0
    /\ audioCacheHitCount' = 0
    /\ ops' = [ops EXCEPT !.flushes = @ + 1, !.audio = @ + 1]
    /\ adminRes' = [message |-> "All audio cache cleared",
                    cleared |-> KeyCount(audioCache)]
    /\ UNCHANGED <<now, req, lessonVars, doubtVars, diagramVars, upstream, probe, NODE_ENV>>

\* DELETE /api/audio/cache
AudioClearCache ==
    /\ ops.flushes < MaxFlushes
    /\ KeyCount(audioCache) > 0
    /\ audioCache' = EmptyCache
    /\ ops' = [ops EXCEPT !.flushes = @ + 1, !.audio = @ + 1]
    /\ adminRes' = [message |-> "All audio cache cleared",
                    cleared |-> KeyCount(audioCache)]
    /\ UNCHANGED <<now, req, audioApiCallCount, audioCacheHitCount, lessonVars,
                   doubtVars, diagramVars, upstream, probe, NODE_ENV>>

\* the periodic check of the store
AudioCacheCheck ==
    /\ CacheSweep(audioCache, now) # audioCache
    /\ audioCache' = CacheSweep(audioCache, now)
    /\ UNCHANGED <<now, req, audioApiCallCount, audioCacheHitCount, lessonVars,
                   doubtVars, diagramVars, upstream, ops, probe, NODE_ENV, adminRes>>

(***************************************************************************)
(* The diagram route: POST /api/diagram                                    *)
(***************************************************************************)
DiagramCacheTTL == 604800

VALID_STYLES == <<"iconic", "abstract", "flow", "illustration", "diagram">>

visualTopics ==
    <<"photosynthesis", "cell", "mitosis", "meiosis", "dna", "rna", "gene",
      "reproduction", "sexual reproduction", "asexual reproduction",
      "fertilization", "plant", "flower", "leaf", "root", "stem", "seed", "animal",
      "mammal", "bird", "fish", "reptile", "amphibian", "insect", "food chain",
      "food web", "ecosystem", "habitat", "biodiversity", "human body", "heart",
      "brain", "lung", "kidney", "liver", "stomach", "digestive system",
      "respiratory system", "circulatory system", "nervous system",
      "skeletal system", "muscular system", "immune system", "reproductive system",
      "blood", "bone", "muscle", "tissue", "organ", "heridity", "evolution",
      "natural selection", "adaptation", "species", "force", "motion", "velocity",
      "acceleration", "gravity", "friction", "energy", "kinetic", "potential",
      "mechanical", "thermal", "electricity", "circuit", "voltage", "current",
      "resistance", "magnet", "magnetism", "electromagnetic", "wave", "frequency",
      "light", "reflection", "refraction", "prism", "spectrum", "sound",
      "vibration", "amplitude", "wavelength", "newton", "law of motion",
      "thermodynamics", "atom", "molecule", "element", "compound", "mixture",
      "chemical reaction", "equation", "bond", "ionic", "covalent",
      "periodic table", "metal", "non-metal", "noble gas", "acid", "base", "ph",
      "neutral", "salt", "oxidation", "reduction", "combustion", "synthesis",
      "solar system", "planet", "star", "galaxy", "universe", "earth",
      "atmosphere", "layer", "ozone", "greenhouse", "water cycle", "evaporation",
      "condensation", "precipitation", "rock cycle", "igneous", "sedimentary",
      "metamorphic", "volcano", "earthquake", "plate tectonic", "fault", "tsunami",
      "mountain", "valley", "river", "ocean", "lake", "glacier", "weather",
      "climate", "wind", "rain", "storm", "hurricane", "season", "rotation",
      "revolution", "orbit", "eclipse", "geometry", "triangle", "circle", "square",
      "rectangle", "pentagon", "angle", "shape", "polygon", "quadrilateral",
      "parallel", "perpendicular", "coordinate", "graph", "axis", "slope", "line",
      "fraction", "decimal", "percentage", "ratio", "proportion", "volume", "area",
      "perimeter", "surface", "machine", "lever", "pulley", "wheel", "axle",
      "gear", "simple machine", "complex machine", "mechanical advantage",
      "computer", "hardware", "software", "network", "algorithm", "robot",
      "artificial intelligence", "sensor", "cycle", "process", "system",
      "structure", "diagram", "experiment", "observation", "hypothesis", "method",
      "classification", "taxonomy", "hierarchy">>

\* a relevance check that lets every topic through
Mutant_C4_needsVisualDiagram(topic) == Len(topic) > 0

\* a relevance check that compares the topic as it was typed
Mutant_C17_needsVisualDiagram(topic) ==
    \E k \in 1..Len(visualTopics) : includes(trim(topic), visualTopics[k])

\* needsVisualDiagram(topic): some keyword occurs in the normalised topic
needsVisualDiagram(topic) ==
    LET topicLower == trim(toLowerCase(topic))
    IN  \E k \in 1..Len(visualTopics) : includes(topicLower, visualTopics[k])

\* a parsed response body of the image model: a list of <<key, value>> pairs
Field(data, key) ==
    IF \E i \in 1..Len(data) : data[i][1] = key
    THEN data[CHOOSE i \in 1..Len(data) : data[i][1] = key][2]
    ELSE <<>>

ObjectKeys(data) == [i \in 1..Len(data) |-> data[i][1]]

\* the catch block of the route
DiagramError(err) ==
    LET sent ==
        IF err.name = "ThrottlingException"
        THEN [status |-> 429,
              json |-> [error |->
                  "Too many image generation requests. Please try again in a moment."]]
        ELSE IF err.name = "ValidationException"
        THEN [status |-> 400,
              json |-> [error |-> "Invalid image generation request. Check your parameters."]]
        ELSE IF "message" \in DOMAIN err /\ includes(err.message, "content policy")
        THEN [status |-> 400,
              json |-> [error |->
                  "Content policy violation. Please try a different topic or style."]]
        ELSE [status |-> 500, json |-> [error |-> "Failed to generate diagram"]]
    IN  [status |-> sent.status, json |-> WithDetails(sent.json, err)]

\* from the request to bedrock.send: the checks, the relevance filter and the
\* cache lookup
DiagramPost(r, body) ==
    /\ Arrives(r)
    /\ UNCHANGED <<now, lessonVars, doubtVars, audioVars, ops, probe, NODE_ENV, adminRes>>
    /\ IF ~Truthy(body.topic)
       THEN /\ req' = [req EXCEPT ![r] =
                    Done("diagram", body, 400, [error |-> "Topic is required"], NoHistory)]
            /\ UNCHANGED <<diagramVars, upstream>>
       ELSE
       LET topic == body.topic.s
           gradeLevel == gradeOrDefault(body.grade)
           diagramStyle == stringOr(body.style, "iconic")
           cacheKey == getDiagramCacheKey(topic, gradeLevel, diagramStyle)
           hist == [NoHistory EXCEPT !.looked = TRUE,
                                     !.sawOps = ops.diagram, !.sawAt = now,
                                     !.stale = IsStale(diagramCache, cacheKey, now)]
       IN  IF Len(topic) > MaxTopicLength
           THEN /\ req' = [req EXCEPT ![r] =
                        Done("diagram", body, 400,
                             [error |-> "Topic too long (max 200 characters)"], NoHistory)]
                /\ UNCHANGED <<diagramVars, upstream>>
           ELSE IF ~InSeq(VALID_STYLES, diagramStyle)
           THEN /\ req' = [req EXCEPT ![r] =
                        Done("diagram", body, 400,
                             [error |-> "Invalid style. Must be one of: "
                                        \o join(VALID_STYLES, ", ")], NoHistory)]
                /\ UNCHANGED <<diagramVars, upstream>>
           ELSE IF ~needsVisualDiagram(topic)
           THEN /\ req' = [req EXCEPT ![r] =
                        Done("diagram", body, 200,
                             [imageBase64 |-> Null, style |-> diagramStyle,
                              message |-> "This topic doesn't require a visual diagram",
                              suggestion |->
                                  "Visual may not add significant value for this concept"],
                             NoHistory)]
                /\ UNCHANGED <<diagramVars, upstream>>
           ELSE IF IsLive(diagramCache, cacheKey, now)
           THEN /\ imageCacheHitCount' = imageCacheHitCount + 1
                /\ UNCHANGED <<diagramCache, imageApiCallCount, upstream>>
                /\ req' = [req EXCEPT ![r] =
                        Done("diagram", body, 200,
                             [imageBase64 |-> diagramCache[cacheKey].v.imageBase64,
                              style |-> diagramStyle, cached |-> TRUE,
                              stats |-> [apiCalls |-> imageApiCallCount,
                                         cacheHits |-> imageCacheHitCount',
                                         savingsPercent |->
                                             toFixed1(imageCacheHitCount',
                                                 imageApiCallCount + imageCacheHitCount')
                                             \o "%"]],
                             hist)]
           ELSE /\ diagramCache' = AfterGet(diagramCache, cacheKey, now)
                /\ upstream' = [upstream EXCEPT !.image = @ + 1]
                /\ UNCHANGED <<imageApiCallCount, imageCacheHitCount>>
                /\ req' = [req EXCEPT ![r] =
                        [pc |-> "image", kind |-> "diagram", body |-> body,
                         diagramStyle |-> diagramStyle, cacheKey |-> cacheKey,
                         h |-> [hist EXCEPT !.gen = 1]]]

\* a body without an image answered as a success without a picture
Mutant_C22_DiagramNoImage(rec, data, hist) ==
    Done("diagram", rec.body, 200,
         [imageBase64 |-> Null, style |-> rec.diagramStyle, cached |-> FALSE], hist)

\* the answer to a body that holds neither images[0] nor artifacts[0]
DiagramNoImage(rec, data, hist) ==
    Done("diagram", rec.body, 500,
         [error |-> "No image generated", responseKeys |-> ObjectKeys(data)], hist)

\* bedrock.send settles: an image is stored and counted and the response sent; a
\* body without an image gives a 500; a thrown error goes to the catch block
DiagramImageReturns(r, out) ==
    /\ req[r].pc = "image"
    /\ UNCHANGED <<now, imageCacheHitCount, lessonVars, doubtVars, audioVars,
                   upstream, probe, NODE_ENV, adminRes>>
    /\ LET rec == req[r]
           data == out.value
           images == Field(data, "images")
           artifacts == Field(data, "artifacts")
           imageBase64 == IF Len(images) > 0 THEN images[1] ELSE artifacts[1].base64
           hist == [rec.h EXCEPT !.shape = {data[i][1] : i \in 1..Len(data)}]
           savingsPercent ==
               IF imageCacheHitCount > 0
               THEN toFixed1(imageCacheHitCount, imageApiCallCount' + imageCacheHitCount)
               ELSE "0"
       IN  IF out.threw
           THEN /\ UNCHANGED <<diagramCache, imageApiCallCount, ops>>
                /\ req' = [req EXCEPT ![r] =
                        Done("diagram", rec.body, DiagramError(out).status,
                             DiagramError(out).json, [rec.h EXCEPT !.threw = out.name])]
           ELSE IF Len(images) = 0 /\ Len(artifacts) = 0
           THEN /\ UNCHANGED <<diagramCache, imageApiCallCount, ops>>
                /\ req' = [req EXCEPT ![r] = DiagramNoImage(rec, data, hist)]
           ELSE /\ diagramCache' = CacheSet(diagramCache, rec.cacheKey,
                                            [imageBase64 |-> imageBase64,
                                             style |-> rec.diagramStyle],
                                            DiagramCacheTTL, now)
                /\ ops' = [ops EXCEPT !.diagram = @ + 1]
                /\ imageApiCallCount' = imageApiCallCount + 1
                /\ req' = [req EXCEPT ![r] =
                        Done("diagram", rec.body, 200,
                             [imageBase64 |-> imageBase64, style |-> rec.diagramStyle,
                              cached |-> FALSE,
                              stats |-> [apiCalls |-> imageApiCallCount',
                                         cacheHits |-> imageCacheHitCount,
                                         savingsPercent |-> savingsPercent \o "%"]],
                             [hist EXCEPT !.putOps = ops'.diagram])]

\* DELETE /api/diagram/cache: one entry when topic, grade and style are all
\* given, else every entry
DiagramClearCache(query) ==
    /\ ops.flushes < MaxFlushes
    /\ KeyCount(diagramCache) > 0
    /\ IF Truthy(query.topic) /\ Truthy(query.grade) /\ Truthy(query.style)
       THEN LET p == parseInt(query.grade)
                cacheKey ==
                    IF p.nan
                    THEN "img_" \o trim(toLowerCase(query.topic.s)) \o "_NaN_"
                         \o query.style.s
                    ELSE getDiagramCacheKey(query.topic.s, p.n, query.style.s)
            IN  /\ diagramCache' = CacheDel(diagramCache, cacheKey)
                /\ adminRes' =
                       IF cacheKey \in DOMAIN diagramCache
                       THEN [message |-> "Cleared diagram cache for: " \o cacheKey,
                             cleared |-> 1]
                       ELSE [message |-> "No cached diagram found for: " \o cacheKey,
                             cleared |-> 0]
       ELSE /\ diagramCache' = EmptyCache
            /\ adminRes' = [message |-> "All diagram cache cleared",
                            cleared |-> KeyCount(diagramCache)]
    /\ ops' = [ops EXCEPT !.flushes = @ + 1, !.diagram = @ + 1]
    /\ UNCHANGED <<now, req, imageApiCallCount, imageCacheHitCount, lessonVars,
                   doubtVars, audioVars, upstream, probe, NODE_ENV>>

\* the periodic check of the store
DiagramCacheCheck ==
    /\ CacheSweep(diagramCache, now) # diagramCache
    /\ diagramCache' = CacheSweep(diagramCache, now)
    /\ UNCHANGED <<now, req, imageApiCallCount, imageCacheHitCount, lessonVars,
                   doubtVars, audioVars, upstream, ops, probe, NODE_ENV, adminRes>>

(***************************************************************************)
(* The environment: the request bodies sent and what the collaborators     *)
(* return.                                                                 *)
(***************************************************************************)
LessonBodies ==
    { [topic |-> JStr("Plant"), grade |-> JNum(6), language |-> JStr("English")],
      [topic |-> JStr(" plant "), grade |-> JUndef, language |-> JUndef],
      [topic |-> JStr("Plant"), grade |-> JNum(6), language |-> JStr("Marathi")],
      [topic |-> JUndef, grade |-> JNum(6), language |-> JStr("English")],
      [topic |-> JStr("  "), grade |-> JNum(13), language |-> JStr("French")],
      [topic |-> JStr(repeat("x", MaxTopicLength + 1)), grade |-> JNum(6),
       language |-> JStr("Hindi")] }

\* the same topic up to case and blanks, and one rejected body
LessonBodiesSameTopic ==
    {b \in LessonBodies :
        ~Truthy(b.topic) \/ (b.topic.s \in {"Plant", " plant "} /\ b.language # JStr("Marathi"))}

LessonOutcomes == TextOutcomes(LessonTexts)

\* without the refusal, where the clock or overlapping requests are the subject
LessonOutcomesPlain == TextOutcomes({LessonTextA, LessonTextShort})

QuizOutcomes == TextOutcomes(QuizTexts)

DoubtQuestion == "Why is the sky blue?"

DoubtBodies ==
    { [question |-> JStr(DoubtQuestion), grade |-> JNum(6), language |-> JStr("English")],
      [question |-> JStr("  why is the SKY blue? "), grade |-> JUndef,
       language |-> JUndef],
      [question |-> JStr(DoubtQuestion), grade |-> JNum(6), language |-> JStr("Marathi")],
      [question |-> JUndef, grade |-> JNum(6), language |-> JStr("English")],
      [question |-> JStr("   "), grade |-> JNum(6), language |-> JStr("English")],
      [question |-> JStr(repeat("q", MaxQuestionLength + 1)), grade |-> JNum(6),
       language |-> JStr("Hindi")] }

DoubtOutcomes ==
    { Returned("The sky scatters blue light most."), Returned("It is blue."),
      Thrown("ThrottlingException"), Thrown("ValidationException") }

\* a thrown error that carries a code
ThrownCode(name, code) == [threw |-> TRUE, name |-> name, code |-> code]

AudioBodies ==
    { [text |-> JStr("Hello world"), language |-> JStr("English"), voiceId |-> JUndef],
      [text |-> JStr("  hello WORLD "), language |-> JUndef, voiceId |-> JUndef],
      [text |-> JStr("Hello world"), language |-> JStr("Marathi"), voiceId |-> JUndef],
      [text |-> JUndef, language |-> JStr("English"), voiceId |-> JUndef],
      [text |-> JStr(" \n "), language |-> JStr("English"), voiceId |-> JUndef],
      [text |-> JStr(repeat("x", MAX_TEXT_LENGTH + 1)), language |-> JStr("Hindi"),
       voiceId |-> JUndef],
      [text |-> JStr(repeat("'", 1200)), language |-> JStr("English"),
       voiceId |-> JStr("Raveena")] }

AudioPollyOutcomes ==
    { Returned("AudioStream"), Thrown("ThrottlingException"),
      ThrownCode("InvalidSsmlException", "InvalidSsmlException") }

DiagramBodies ==
    { [topic |-> JStr("Plant"), grade |-> JNum(6), style |-> JUndef],
      [topic |-> JStr(" plant "), grade |-> JUndef, style |-> JStr("iconic")],
      [topic |-> JStr("Poem"), grade |-> JNum(6), style |-> JStr("flow")],
      [topic |-> JUndef, grade |-> JNum(6), style |-> JUndef],
      [topic |-> JStr(repeat("x", MaxTopicLength + 1)), grade |-> JNum(6),
       style |-> JUndef],
      [topic |-> JStr("Plant"), grade |-> JNum(6), style |-> JStr("photo")],
      [topic |-> JStr(repeat("x", MaxTopicLength + 1)), grade |-> JNum(6),
       style |-> JStr("photo")] }

ImageOutcomes ==
    { Returned(<< <<"images", <<"PNG-1">>>> >>),
      Returned(<< <<"artifacts", <<[base64 |-> "PNG-2"]>>>> >>),
      Returned(<< <<"message", <<"no image">>>> >>),
      Thrown("ThrottlingException"),
      ThrownMessage("Error", "blocked by content policy") }

DiagramQueries ==
    { [topic |-> JUndef, grade |-> JUndef, style |-> JUndef],
      [topic |-> JStr("PLANT"), grade |-> JStr("6"), style |-> JStr("iconic")] }

\* no request is between its arrival and its response
Quiet == \A q \in ReqIds : req[q].pc \in {"idle", "done"}

(***************************************************************************)
(* The clock.                                                              *)
(***************************************************************************)
TickSteps == {LessonAudioCacheTTL, LessonAudioCacheTTL + 1, LessonCacheTTL + 1}

Tick(d) ==
    /\ ops.ticks < MaxTicks
    /\ now' = now + d
    /\ ops' = [ops EXCEPT !.ticks = @ + 1]
    /\ UNCHANGED <<req, lessonVars, doubtVars, audioVars, diagramVars, upstream, probe, NODE_ENV, adminRes>>

\* the values of process.env.NODE_ENV a deployment runs with
BuildEnvs == {"production", "development"}

\* the state of the process once every route module is loaded
Loaded ==
    /\ now = 0
    /\ req = [r \in ReqIds |-> Idle]
    /\ lessonCache = EmptyCache
    /\ lessonAudioCache = EmptyCache
    /\ apiCallCount = 0
    /\ cacheHitCount = 0
    /\ audioApiCalls = 0
    /\ audioCacheHits = 0
    /\ doubtCache = EmptyCache
    /\ doubtAudioCache = EmptyCache
    /\ doubtApiCalls = 0
    /\ doubtCacheHits = 0
    /\ doubtAudioApiCalls = 0
    /\ doubtAudioCacheHits = 0
    /\ audioCache = EmptyCache
    /\ audioApiCallCount = 0
    /\ audioCacheHitCount = 0
    /\ diagramCache = EmptyCache
    /\ imageApiCallCount = 0
    /\ imageCacheHitCount = 0
    /\ upstream = [text |-> 0, polly |-> 0, image |-> 0]
    /\ ops = [lesson |-> 0, lessonAudio |-> 0, doubt |-> 0, doubtAudio |-> 0,
              audio |-> 0, diagram |-> 0, ticks |-> 0, flushes |-> 0]
    /\ probe = [fn |-> "none"]
    /\ adminRes = Null

\* a production build
Init == Loaded /\ NODE_ENV = "production"

\* a build of either kind
InitBuild == Loaded /\ NODE_ENV \in BuildEnvs

(***************************************************************************)
(* Specifications.                                                         *)
(***************************************************************************)
\* every route, one request at a time, with cache clearing
Next ==
    \/ \E r \in ReqIds, body \in LessonBodies : Quiet /\ LessonPost(r, body)
    \/ \E r \in ReqIds, out \in LessonOutcomes : LessonGenerateReturns(r, out)
    \/ \E r \in ReqIds, out \in QuizOutcomes : LessonQuizReturns(r, out)
    \/ \E r \in ReqIds, out \in PollyOutcomes : LessonPollyReturns(r, out)
    \/ \E r \in ReqIds, body \in DoubtBodies : Quiet /\ DoubtPost(r, body)
    \/ \E r \in ReqIds, out \in DoubtOutcomes : DoubtAnswerReturns(r, out)
    \/ \E r \in ReqIds, out \in PollyOutcomes : DoubtPollyReturns(r, out)
    \/ \E r \in ReqIds, body \in AudioBodies : Quiet /\ AudioPost(r, body)
    \/ \E r \in ReqIds, out \in AudioPollyOutcomes : AudioPollyReturns(r, out)
    \/ \E r \in ReqIds, body \in DiagramBodies : Quiet /\ DiagramPost(r, body)
    \/ \E r \in ReqIds, out \in ImageOutcomes : DiagramImageReturns(r, out)

Spec == Init /\ [][Next]_vars

\* the lesson route, one request at a time, with the clock, cache clearing and
\* the periodic checks between requests
LessonNext ==
    \/ \E r \in ReqIds, body \in LessonBodiesSameTopic : Quiet /\ LessonPost(r, body)
    \/ \E r \in ReqIds, out \in LessonOutcomesPlain : LessonGenerateReturns(r, out)
    \/ \E r \in ReqIds, out \in QuizOutcomes : LessonQuizReturns(r, out)
    \/ \E r \in ReqIds, out \in PollyOutcomes : LessonPollyReturns(r, out)
    \/ Quiet /\ LessonClearCache
    \/ Quiet /\ LessonCacheCheck
    \/ Quiet /\ LessonAudioCacheCheck
    \/ \E d \in TickSteps : Quiet /\ Tick(d)

SpecLesson == Init /\ [][LessonNext]_vars

\* the lesson and diagram routes with requests in flight together
RaceNext ==
    \/ \E r \in ReqIds, body \in LessonBodiesSameTopic : LessonPost(r, body)
    \/ \E r \in ReqIds, out \in LessonOutcomesPlain : LessonGenerateReturns(r, out)
    \/ \E r \in ReqIds, out \in QuizOutcomes : LessonQuizReturns(r, out)
    \/ \E r \in ReqIds, out \in PollyOutcomes : LessonPollyReturns(r, out)
    \/ \E r \in ReqIds, body \in DiagramBodies : DiagramPost(r, body)
    \/ \E r \in ReqIds, out \in ImageOutcomes : DiagramImageReturns(r, out)

SpecRace == Init /\ [][RaceNext]_vars

(***************************************************************************)
(* The pure helpers applied on their own to generated inputs.              *)
(***************************************************************************)
\* every string of at most n characters of the alphabet
RECURSIVE StringsUpTo(_, _)
StringsUpTo(alphabet, n) ==
    IF n = 0 THEN {""}
    ELSE LET shorter == StringsUpTo(alphabet, n - 1)
         IN  shorter \cup {s \o c : s \in shorter, c \in alphabet}

HashAlphabet == {"a", "Z", "~"}

HashInputs == StringsUpTo(HashAlphabet, MaxHashLen) \cup {"hello", DoubtQuestion}

\* both copies of simpleHash applied to str
HashProbe(str) ==
    /\ probe.fn = "none"
    /\ probe' = [fn |-> "simpleHash", str |-> str,
                 doubt |-> Doubt_simpleHash(str), audio |-> Audio_simpleHash(str)]
    /\ UNCHANGED <<now, req, lessonVars, doubtVars, audioVars, diagramVars,
                   upstream, ops, adminRes, NODE_ENV>>

HashNext == \E str \in HashInputs : HashProbe(str)

SpecHash == Init /\ [][HashNext]_vars

\* every spelling of s in upper and lower case
RECURSIVE CaseVariants(_)
CaseVariants(s) ==
    IF s = "" THEN {""}
    ELSE {c \o rest : c \in {LowerChar(Head(s)), UpperChar(Head(s))},
                      rest \in CaseVariants(Tail(s))}

PadChars == {" ", "\n"}

Pads == StringsUpTo(PadChars, MaxPad)

\* the topics that differ from core only in case and in blanks around it
Variants(core) == {l \o v \o r : l \in Pads, v \in CaseVariants(core), r \in Pads}

Cores == StringsUpTo({"a", "b"}, MaxCoreLen) \ {""}

\* the three structured keys of two topics a and b
KeyProbe(core, a, b, grade, language, style) ==
    /\ probe.fn = "none"
    /\ probe' = [fn |-> "keys", core |-> core, a |-> a, b |-> b, grade |-> grade,
                 language |-> language, style |-> style,
                 lessonA |-> getLessonCacheKey(a, grade, language),
                 lessonB |-> getLessonCacheKey(b, grade, language),
                 audioA |-> Lesson_getAudioCacheKey(a, grade, language),
                 audioB |-> Lesson_getAudioCacheKey(b, grade, language),
                 diagramA |-> getDiagramCacheKey(a, grade, style),
                 diagramB |-> getDiagramCacheKey(b, grade, style)]
    /\ UNCHANGED <<now, req, lessonVars, doubtVars, audioVars, diagramVars,
                   upstream, ops, adminRes, NODE_ENV>>

\* the second topic: the core itself, or a spelling of it behind a blank
Anchors(core) == {core} \cup {" " \o v : v \in CaseVariants(core)}

KeysNext ==
    \E core \in Cores, grade \in {MIN_GRADE, MAX_GRADE}, language \in {"English", "Hindi"} :
        \E a \in Variants(core), b \in Anchors(core) :
            KeyProbe(core, a, b, grade, language, "iconic")

SpecKeys == Init /\ [][KeysNext]_vars

(***************************************************************************)
(* C10: the digest, against a reference that multiplies by 31 modulo 2^32. *)
(***************************************************************************)
\* the reference accumulator after the characters of str: an unsigned 32-bit
\* number <<high half, low half>>, each step 31 * u + charCode modulo 2^32
RECURSIVE RefHash(_)
RefHash(str) ==
    IF str = "" THEN <<0, 0>>
    ELSE CHOOSE v \in
            { LET low == 31 * u[2] + charCodeAt(CharAt(str, Len(str)))
              IN  <<(31 * u[1] + low \div Half) % Half, low % Half>> :
              u \in {RefHash(SubSeq(str, 1, Len(str) - 1))} } : TRUE

\* the accumulator read as a signed 32-bit integer is negative
RefNegative(u) == u[1] >= 32768

\* the absolute value of the accumulator read as a signed 32-bit integer
RefMagnitude(u) ==
    IF RefNegative(u)
    THEN <<(Half - 1 - u[1] + (IF u[2] = 0 THEN 1 ELSE 0)) % Half, (Half - u[2]) % Half>>
    ELSE u

\* d is a base-36 numeral in lower case without a leading zero
IsNumeral36(d) ==
    /\ d # ""
    /\ \A i \in 1..Len(d) : CharAt(d, i) \in CharsOf(Base36Digits)
    /\ Len(d) > 1 => Head(d) # "0"

\* the number a base-36 numeral of at most seven digits denotes, as <<high, low>>
RECURSIVE Value36(_)
Value36(d) ==
    IF d = "" THEN <<0, 0>>
    ELSE CHOOSE v \in
            { LET low == 36 * u[2] + IndexIn(Base36Digits, CharAt(d, Len(d))) - 1
              IN  <<36 * u[1] + low \div Half, low % Half>> :
              u \in {Value36(SubSeq(d, 1, Len(d) - 1))} } : TRUE

\* C10: for every input string the doubt copy and the audio copy of simpleHash
\* return the same digest, and that digest is the base-36 numeral of the absolute
\* value of the 32-bit wrapped accumulator hash = hash * 31 + charCode started at
\* 0; on "hello" it is 1n1e4y.
C10_SimpleHashIsWrappedTimes31 ==
    probe.fn = "simpleHash" =>
        /\ probe.doubt = probe.audio
        /\ IsNumeral36(probe.doubt)
        /\ Len(probe.doubt) <= 7
        /\ Value36(probe.doubt) = RefMagnitude(RefHash(probe.str))
        /\ probe.str = "hello" => probe.doubt = "1n1e4y"

\* C10 witness: a hashed string of the longest generated length whose
\* accumulator wrapped to a negative value
C10_WrappedNegative ==
    /\ probe.fn = "simpleHash"
    /\ Len(probe.str) = MaxHashLen
    /\ RefNegative(RefHash(probe.str))

(***************************************************************************)
(* C8: the structured keys of topics that differ in case and outer blanks. *)
(***************************************************************************)
\* C8: two topics that differ only in letter case or in leading and trailing
\* blanks, with the same grade and the same language or style, have the same
\* lesson key, the same lesson-audio key and the same diagram key, namely the key
\* built from the lower-case topic without the blanks.
C8_KeysIgnoreCaseAndOuterBlanks ==
    probe.fn = "keys" =>
        /\ probe.lessonA = probe.lessonB
        /\ probe.audioA = probe.audioB
        /\ probe.diagramA = probe.diagramB
        /\ probe.lessonA = "lesson_" \o probe.core \o "_" \o intToString(probe.grade)
                           \o "_" \o toLowerCase(probe.language)
        /\ probe.audioA = "audio_" \o probe.core \o "_" \o intToString(probe.grade)
                          \o "_" \o toLowerCase(probe.language)
        /\ probe.diagramA = "img_" \o probe.core \o "_" \o intToString(probe.grade)
                            \o "_" \o probe.style

\* C8 witness: two different topics, the first in upper case with blanks on both
\* sides, whose keys were derived
C8_DifferentSpellingsProbed ==
    /\ probe.fn = "keys"
    /\ probe.a # probe.b
    /\ Len(probe.a) = Len(probe.core) + 2 * MaxPad
    /\ IsSpace(Head(probe.a))
    /\ IsSpace(CharAt(probe.a, Len(probe.a)))
    /\ \E i \in 1..Len(probe.a) : IsUpper(CharAt(probe.a, i))

(***************************************************************************)
(* Claims about the lesson route, one request after the other.             *)
(***************************************************************************)
\* request r was a lesson request with a topic, and has been answered
LessonAnswered(r) ==
    /\ req[r].pc = "done"
    /\ req[r].kind = "lesson"
    /\ Truthy(req[r].body.topic)

\* two lesson bodies ask for the same topic up to case and outer blanks, for
\* the same grade and the same language
SameLessonArgs(b1, b2) ==
    /\ trim(toLowerCase(b1.topic.s)) = trim(toLowerCase(b2.topic.s))
    /\ gradeOrDefault(b1.grade) = gradeOrDefault(b2.grade)
    /\ toLowerCase(stringOr(b1.language, "English")) =
       toLowerCase(stringOr(b2.language, "English"))

\* r1 generated and stored a lesson; r2 asked for the same lesson and looked up
\* when r1's write was the last one of the lesson cache
LooksUpAfterStore(r1, r2) ==
    /\ r1 # r2
    /\ LessonAnswered(r1)
    /\ req[r1].status = 200
    /\ req[r1].h.putOps > 0
    /\ req[r2].pc # "idle"
    /\ req[r2].kind = "lesson"
    /\ Truthy(req[r2].body.topic)
    /\ SameLessonArgs(req[r1].body, req[r2].body)
    /\ req[r2].h.sawOps = req[r1].h.putOps

\* C1: a lesson request that finds nothing stored answers cached = false; a second
\* request for the same topic, grade and language that looks up after the first
\* one stored, with no write or flush in between and within the time to live,
\* answers 200 with cached = true and with the lesson object of the first answer.
C1_SecondRequestServedFromCache ==
    /\ \A r \in ReqIds :
          (LessonAnswered(r) /\ req[r].status = 200 /\ req[r].h.gen > 0)
              => req[r].json.cached = FALSE
    /\ \A r1, r2 \in ReqIds :
          ( /\ LooksUpAfterStore(r1, r2)
            /\ req[r2].pc = "done"
            /\ req[r2].h.sawAt <= req[r1].json.lesson.timestamp + LessonCacheTTL )
              => /\ req[r1].json.cached = FALSE
                 /\ req[r2].status = 200
                 /\ req[r2].json.cached = TRUE
                 /\ req[r2].json.lesson = req[r1].json.lesson
                 /\ req[r2].h.gen = 0

\* C1 witness: the model and the speech service succeeded for the first request,
\* and a second request with the very same body was served from the cache
C1_SameBodyTwice ==
    \E r1, r2 \in ReqIds :
        /\ LooksUpAfterStore(r1, r2)
        /\ req[r2].pc = "done"
        /\ req[r1].body = req[r2].body
        /\ ~req[r1].h.fallback
        /\ req[r1].h.gen = 1
        /\ req[r1].json.audio # Null
        /\ req[r1].json.cached = FALSE
        /\ req[r2].json.cached = TRUE
        /\ req[r2].json.lesson = req[r1].json.lesson

(***************************************************************************)
(* Claims about overlapping requests for one key.                          *)
(***************************************************************************)
\* request r of the given kind got past validation: it looked its key up
LookedUp(r, kind) ==
    /\ req[r].pc # "idle"
    /\ req[r].kind = kind
    /\ req[r].h.looked

\* two diagram bodies ask for the same topic up to case and outer blanks, for
\* the same grade and style
SameDiagramArgs(b1, b2) ==
    /\ trim(toLowerCase(b1.topic.s)) = trim(toLowerCase(b2.topic.s))
    /\ gradeOrDefault(b1.grade) = gradeOrDefault(b2.grade)
    /\ stringOr(b1.style, "iconic") = stringOr(b2.style, "iconic")

SameArgs(kind, b1, b2) ==
    IF kind = "lesson" THEN SameLessonArgs(b1, b2) ELSE SameDiagramArgs(b1, b2)

\* the requests of a kind that wrote the cache
Stored(kind) == {r \in ReqIds : LookedUp(r, kind) /\ req[r].h.putOps > 0}

\* the value request r wrote
WrittenBy(r) ==
    IF req[r].kind = "lesson"
    THEN (IF req[r].pc = "done" THEN req[r].json.lesson ELSE req[r].lesson)
    ELSE [imageBase64 |-> req[r].json.imageBase64, style |-> req[r].json.style]

KeyOf(r) ==
    IF req[r].kind = "lesson"
    THEN getLessonCacheKey(req[r].body.topic.s, gradeOrDefault(req[r].body.grade),
                           stringOr(req[r].body.language, "English"))
    ELSE getDiagramCacheKey(req[r].body.topic.s, gradeOrDefault(req[r].body.grade),
                            stringOr(req[r].body.style, "iconic"))

RECURSIVE SumGen(_)
SumGen(rs) ==
    IF rs = {} THEN 0
    ELSE LET r == CHOOSE x \in rs : TRUE IN req[r].h.gen + SumGen(rs \ {r})

\* C2: nothing coalesces lesson requests or diagram requests for one key. A
\* request that looks up while an earlier request for the same key has missed
\* and not yet stored misses as well and calls the model itself; every request
\* that reaches the store writes its own value and adds one to the API-call
\* counter; the entry left under the key is the one written last.
C2_NoSingleFlight ==
    \A kind \in {"lesson", "diagram"} :
        /\ \A r1, r2 \in ReqIds :
              ( /\ r1 # r2
                /\ LookedUp(r1, kind) /\ LookedUp(r2, kind)
                /\ SameArgs(kind, req[r1].body, req[r2].body)
                /\ req[r1].h.gen >= 1
                /\ req[r2].h.sawOps = req[r1].h.sawOps )
                  => req[r2].h.gen >= 1
        /\ IF kind = "lesson"
           THEN /\ apiCallCount = Cardinality(Stored(kind))
                /\ upstream.text >=
                       SumGen({r \in ReqIds : LookedUp(r, kind)}) + Cardinality(Stored(kind))
           ELSE /\ imageApiCallCount = Cardinality(Stored(kind))
                /\ upstream.image = SumGen({r \in ReqIds : LookedUp(r, kind)})
        /\ \A r1, r2 \in Stored(kind) :
              ( /\ r1 # r2
                /\ SameArgs(kind, req[r1].body, req[r2].body)
                /\ req[r1].h.putOps <= req[r2].h.putOps )
                  => /\ req[r1].h.putOps < req[r2].h.putOps
                     /\ (IF kind = "lesson" THEN ops.lesson ELSE ops.diagram)
                            = req[r2].h.putOps
                        => (IF kind = "lesson" THEN lessonCache ELSE diagramCache)
                               [KeyOf(r2)].v = WrittenBy(r2)

\* C2 witness: two lesson requests with the same body both looked up before
\* anything was stored, both stored different lessons, and the counters read two
\* API calls and no cache hit
C2_TwoCallsNoHit ==
    \E r1, r2 \in Stored("lesson") :
        /\ r1 # r2
        /\ req[r1].body = req[r2].body
        /\ req[r1].h.sawOps = 0 /\ req[r2].h.sawOps = 0
        /\ WrittenBy(r1) # WrittenBy(r2)
        /\ apiCallCount = 2
        /\ cacheHitCount = 0

\* C3: a lesson request whose key has an entry past its time to live takes the
\* miss path, whether the lookup still met the expired entry or the periodic check
\* had removed it: it calls the model, answers cached = false with a lesson made
\* at or after the lookup; an entry stored with a time to live of 1 second is
\* absent 2 seconds later and present 1 second later.
C3_ExpiredEntryIsMiss ==
    /\ \A r \in ReqIds :
          (req[r].pc # "idle" /\ req[r].kind = "lesson" /\ req[r].h.stale)
              => req[r].h.gen >= 1
    /\ \A r1, r2 \in ReqIds :
          ( /\ LooksUpAfterStore(r1, r2)
            /\ req[r2].h.sawAt > req[r1].json.lesson.timestamp + LessonCacheTTL )
              => /\ req[r2].h.gen >= 1
                 /\ (req[r2].pc = "done" /\ req[r2].status = 200)
                        => /\ req[r2].json.cached = FALSE
                           /\ req[r2].json.lesson.timestamp >= req[r2].h.sawAt
    /\ ~IsLive(CacheSet(lessonCache, "k", Null, 1, now), "k", now + 2)
    /\ IsLive(CacheSet(lessonCache, "k", Null, 1, now), "k", now + 1)

\* C3 witness: the second request looked up one second past the time to live of
\* the first one's entry, met the expired entry before any periodic check, and
\* answered with a fresh lesson
C3_StaleEntryRefetched ==
    \E r1, r2 \in ReqIds :
        /\ LooksUpAfterStore(r1, r2)
        /\ req[r2].h.sawAt = req[r1].json.lesson.timestamp + LessonCacheTTL + 1
        /\ req[r2].h.stale
        /\ req[r2].pc = "done"
        /\ req[r2].status = 200
        /\ req[r2].json.cached = FALSE
        /\ req[r2].h.putOps > req[r1].h.putOps

(***************************************************************************)
(* Claims about single requests of the four routes.                        *)
(***************************************************************************)
\* request r arrives in this step as a request of the given kind
ArrivesAs(r, kind) ==
    /\ req[r].pc = "idle"
    /\ req'[r].pc # "idle"
    /\ req'[r].kind = kind

\* no keyword of the visual-topic list occurs in the lower-cased, trimmed topic
NoKeywordIn(topic) ==
    \A k \in 1..Len(visualTopics) :
        ~includes(trim(toLowerCase(topic)), visualTopics[k])

\* a diagram body that validation accepts
DiagramBodyValid(b) ==
    /\ Truthy(b.topic)
    /\ Len(b.topic.s) <= MaxTopicLength
    /\ InSeq(VALID_STYLES, stringOr(b.style, "iconic"))

\* C4: a valid diagram request whose topic holds no visual keyword is answered in
\* the step it arrives, with status 200, imageBase64 null and an explanatory
\* message; it looks nothing up, calls no model, and leaves the diagram cache,
\* the image API-call counter and the image cache-hit counter as they were.
C4_NoDiagramForNonVisualTopic ==
    [][\A r \in ReqIds :
          ( /\ ArrivesAs(r, "diagram")
            /\ DiagramBodyValid(req'[r].body)
            /\ NoKeywordIn(req'[r].body.topic.s) )
              => /\ req'[r].pc = "done"
                 /\ req'[r].status = 200
                 /\ req'[r].json.imageBase64 = Null
                 /\ "message" \in DOMAIN req'[r].json
                 /\ ~req'[r].h.looked
                 /\ upstream' = upstream
                 /\ diagramCache' = diagramCache
                 /\ imageApiCallCount' = imageApiCallCount
                 /\ imageCacheHitCount' = imageCacheHitCount]_vars

\* C4 witness: with a diagram in the cache and one image call counted, a request
\* for a topic without a visual keyword was answered without an image
C4_NonVisualTopicAnswered ==
    \E r \in ReqIds :
        /\ req[r].pc = "done"
        /\ req[r].kind = "diagram"
        /\ DiagramBodyValid(req[r].body)
        /\ NoKeywordIn(req[r].body.topic.s)
        /\ req[r].status = 200
        /\ req[r].json.imageBase64 = Null
        /\ diagramCache # EmptyCache
        /\ imageApiCallCount = 1
        /\ upstream.image = 1

\* the text entry request r reads or writes: the cache, the key, the write count
TextCacheOf(r) == IF req[r].kind = "lesson" THEN lessonCache ELSE doubtCache

TextKeyOf(r) ==
    IF req[r].kind = "lesson"
    THEN getLessonCacheKey(req[r].body.topic.s, gradeOrDefault(req[r].body.grade),
                           stringOr(req[r].body.language, "English"))
    ELSE getDoubtCacheKey(req[r].body.question.s, gradeOrDefault(req[r].body.grade),
                          stringOr(req[r].body.language, "English"))

TextCallsOf(r) == IF req[r].kind = "lesson" THEN apiCallCount ELSE doubtApiCalls

\* the text (lesson or answer) request r holds while it waits for the audio
TextHeldBy(r) == IF req[r].kind = "lesson" THEN req[r].lesson ELSE req[r].answer

\* the text in the answer to request r
TextAnswered(r) ==
    IF req[r].kind = "lesson" THEN req[r].json.lesson ELSE req[r].json.answer

\* C5: in the lesson route and the doubt route, on the hit path and on the miss
\* path, a failure of speech synthesis is swallowed: the request is answered with
\* status 200, the lesson or answer, audio = null and the cached flag of its
\* path. While a miss-path request waits for the audio, and so when the failure
\* occurs, its text is already in the cache and the API-call counter already
\* counts it.
C5_AudioFailureIsNotFatal ==
    \A r \in ReqIds :
        /\ ( /\ req[r].pc = "done"
             /\ req[r].kind \in {"lesson", "doubt"}
             /\ req[r].h.pollyFailed )
               => /\ req[r].status = 200
                  /\ req[r].json.audio = Null
                  /\ req[r].json.cached = (req[r].h.gen = 0)
                  /\ TextCacheOf(r)[TextKeyOf(r)].v = TextAnswered(r)
                  /\ ~req[r].json.cached
                        => req[r].h.putOps > 0 /\ TextCallsOf(r) >= 1
        /\ ( /\ req[r].pc = "polly"
             /\ req[r].kind \in {"lesson", "doubt"}
             /\ ~req[r].cached )
               => /\ req[r].h.putOps > 0
                  /\ TextCallsOf(r) >= 1
                  /\ IsLive(TextCacheOf(r), TextKeyOf(r), now)
                  /\ TextCacheOf(r)[TextKeyOf(r)].v = TextHeldBy(r)

\* C5 witness: speech synthesis failed for a doubt request on the miss path and
\* again for the next request for the same question on the hit path; both were
\* answered with the same text and without audio
C5_FailedOnMissAndOnHit ==
    \E r1, r2 \in ReqIds :
        /\ req[r1].pc = "done" /\ req[r2].pc = "done"
        /\ req[r1].kind = "doubt" /\ req[r2].kind = "doubt"
        /\ req[r1].h.pollyFailed /\ req[r2].h.pollyFailed
        /\ req[r1].status = 200 /\ req[r2].status = 200
        /\ ~req[r1].json.cached
        /\ req[r2].json.cached
        /\ req[r1].json.answer = req[r2].json.answer
        /\ req[r1].json.audio = Null /\ req[r2].json.audio = Null
        /\ doubtApiCalls = 1

\* the narration results in the answer to request r: the answer itself in the
\* audio route, its audio member, when there is one, in the other two
Narrations(r) ==
    IF req[r].pc # "done" \/ req[r].status # 200 THEN {}
    ELSE IF req[r].kind = "audio" THEN {req[r].json}
    ELSE IF req[r].kind \in {"lesson", "doubt"} /\ req[r].json.audio # Null
    THEN {req[r].json.audio}
    ELSE {}

\* C6 (as claimed; the code does not satisfy it): every narration result for a
\* language other than English and Hindi, in the audio route, the lesson route
\* and the doubt route, from the cache or freshly synthesized, carries
\* usingFallback = true and a fallback message (a member the code leaves
\* undefined is absent from the JSON answer).
C6_EveryNarrationFlagsFallback ==
    \A r \in ReqIds : \A a \in Narrations(r) :
        stringOr(req[r].body.language, "English") \notin {"English", "Hindi"}
            => /\ "usingFallback" \in DOMAIN a
               /\ a.usingFallback = TRUE
               /\ "fallbackMessage" \in DOMAIN a

\* the bodies validation has to reject: a missing or blank text, an oversized
\* one, a grade outside the range, a language or style outside the list
BodyInvalid(kind, b) ==
    IF kind = "lesson"
    THEN \/ ~Truthy(b.topic)
         \/ trim(b.topic.s) = ""
         \/ Len(b.topic.s) > MaxTopicLength
         \/ gradeOrDefault(b.grade) \notin MIN_GRADE..MAX_GRADE
         \/ ~InSeq(VALID_LANGUAGES, stringOr(b.language, "English"))
    ELSE IF kind = "doubt"
    THEN \/ ~Truthy(b.question)
         \/ trim(b.question.s) = ""
         \/ Len(b.question.s) > MaxQuestionLength
    ELSE IF kind = "audio"
    THEN \/ ~Truthy(b.text)
         \/ trim(b.text.s) = ""
         \/ Len(trim(b.text.s)) > MAX_TEXT_LENGTH
         \/ Len(Audio_buildSSML(trim(b.text.s))) > MAX_SSML_LENGTH
    ELSE ~DiagramBodyValid(b)

\* C7: in each of the four routes a request with a missing or empty, oversized
\* or out-of-range input is answered with status 400 in the step it arrives; the
\* step calls no model and no speech service, leaves every cache as it was and
\* changes none of the API-call and cache-hit counters.
C7_RejectedRequestHasNoEffect ==
    [][\A r \in ReqIds : \A kind \in {"lesson", "doubt", "audio", "diagram"} :
          (ArrivesAs(r, kind) /\ BodyInvalid(kind, req'[r].body))
              => /\ req'[r].pc = "done"
                 /\ req'[r].status = 400
                 /\ upstream' = upstream
                 /\ <<lessonCache, lessonAudioCache, doubtCache, doubtAudioCache,
                      audioCache, diagramCache>>' =
                    <<lessonCache, lessonAudioCache, doubtCache, doubtAudioCache,
                      audioCache, diagramCache>>
                 /\ <<apiCallCount, cacheHitCount, audioApiCalls, audioCacheHits,
                      doubtApiCalls, doubtCacheHits, doubtAudioApiCalls,
                      doubtAudioCacheHits, audioApiCallCount, audioCacheHitCount,
                      imageApiCallCount, imageCacheHitCount>>' =
                    <<apiCallCount, cacheHitCount, audioApiCalls, audioCacheHits,
                      doubtApiCalls, doubtCacheHits, doubtAudioApiCalls,
                      doubtAudioCacheHits, audioApiCallCount, audioCacheHitCount,
                      imageApiCallCount, imageCacheHitCount>>]_vars

\* C7 witness: after a lesson was generated, stored and counted, a lesson request
\* with a blank topic, grade 13 and an unlisted language was turned away with
\* status 400 and three validation errors
C7_RejectedAfterStoredLesson ==
    \E r1, r2 \in ReqIds :
        /\ r1 < r2
        /\ req[r1].pc = "done" /\ req[r1].kind = "lesson" /\ req[r1].h.putOps > 0
        /\ req[r2].pc = "done" /\ req[r2].kind = "lesson"
        /\ BodyInvalid("lesson", req[r2].body)
        /\ req[r2].status = 400
        /\ "errors" \in DOMAIN req[r2].json
        /\ Len(req[r2].json.errors) = 3
        /\ apiCallCount = 1
        /\ KeyCount(lessonCache) = 1

\* the free text of a doubt or audio body, and what tells two requests of the
\* route apart besides the text
FreeText(kind, b) == IF kind = "doubt" THEN b.question.s ELSE b.text.s

Discriminators(kind, b) ==
    IF kind = "doubt"
    THEN <<gradeOrDefault(b.grade), toLowerCase(stringOr(b.language, "English"))>>
    ELSE <<Audio_getVoiceConfig(stringOr(b.language, "English"), b.voiceId).voiceId,
           Audio_getVoiceConfig(stringOr(b.language, "English"), b.voiceId).languageCode>>

\* C9 (as claimed; the code does not satisfy it): in the doubt route and in the
\* standalone audio route, when a request has stored its result and the next
\* request differs from it only in the letter case and the leading and trailing
\* blanks of the text, with the same grade and language or voice and language
\* code, and looks up with no write in between, the second request is a hit.
C9_FreeTextKeysIgnoreCaseAndBlanks ==
    \A kind \in {"doubt", "audio"} : \A r1, r2 \in ReqIds :
        ( /\ r1 # r2
          /\ req[r1].pc = "done" /\ req[r1].kind = kind
          /\ req[r1].status = 200 /\ req[r1].h.putOps > 0
          /\ req[r2].pc = "done" /\ req[r2].kind = kind
          /\ req[r2].h.looked
          /\ req[r2].h.sawOps = req[r1].h.putOps
          /\ trim(toLowerCase(FreeText(kind, req[r1].body))) =
             trim(toLowerCase(FreeText(kind, req[r2].body)))
          /\ Discriminators(kind, req[r1].body) = Discriminators(kind, req[r2].body) )
            => /\ req[r2].status = 200
               /\ req[r2].json.cached = TRUE

(***************************************************************************)
(* The markup builders applied on their own to texts put together from     *)
(* plain characters, the five special characters and pause directives.     *)
(***************************************************************************)
BreakTags == {"<break time=\"1s\"/>", "<break strength=\"$$\"/>"}

SsmlParts == {"a", " ", "&", "<", ">", "\"", "'"} \cup BreakTags

\* the sequences over a set of at most n members
RECURSIVE SeqsUpTo(_, _)
SeqsUpTo(S, n) ==
    IF n = 0 THEN {<<>>}
    ELSE LET shorter == SeqsUpTo(S, n - 1)
         IN  shorter \cup {Append(q, x) : q \in {t \in shorter : Len(t) = n - 1}, x \in S}

RECURSIVE concat(_)
concat(parts) == IF parts = <<>> THEN "" ELSE Head(parts) \o concat(Tail(parts))

SsmlProbe(parts) ==
    /\ probe.fn = "none"
    /\ probe' = [fn |-> "buildSSML", parts |-> parts, text |-> concat(parts),
                 lesson |-> Lesson_buildSSML(concat(parts)),
                 doubt |-> Doubt_buildSSML(concat(parts)),
                 audio |-> Audio_buildSSML(concat(parts))]
    /\ UNCHANGED <<now, req, lessonVars, doubtVars, audioVars, diagramVars,
                   upstream, ops, adminRes, NODE_ENV>>

SsmlNext == \E parts \in SeqsUpTo(SsmlParts, MaxParts) : SsmlProbe(parts)

SpecSsml == Init /\ [][SsmlNext]_vars

\* what a text put together from the pieces has to become: every pause
\* directive as it is, every special character outside them as its entity
EntityOf(c) ==
    IF c = "&" THEN "&amp;"
    ELSE IF c = "<" THEN "&lt;"
    ELSE IF c = ">" THEN "&gt;"
    ELSE IF c = "\"" THEN "&quot;"
    ELSE IF c = "'" THEN "&apos;"
    ELSE c

RECURSIVE EscapedOutsidePauses(_)
EscapedOutsidePauses(parts) ==
    IF parts = <<>> THEN ""
    ELSE (IF Head(parts) \in BreakTags THEN Head(parts) ELSE EntityOf(Head(parts)))
         \o EscapedOutsidePauses(Tail(parts))

\* the body of a built markup: what stands between the opening and closing tags
SsmlBody(built, open, close) ==
    IF Len(built) >= Len(open) + Len(close)
          /\ SubSeq(built, 1, Len(open)) = open
          /\ SubSeq(built, Len(built) - Len(close) + 1, Len(built)) = close
    THEN SubSeq(built, Len(open) + 1, Len(built) - Len(close))
    ELSE "?"

OneLineOpen == "<speak><prosody rate=\"medium\" pitch=\"medium\">"
OneLineClose == "</prosody></speak>"
ManyLinesOpen == "<speak>\n      <prosody rate=\"medium\" pitch=\"medium\">\n        "
ManyLinesClose == "\n      </prosody>\n    </speak>"

\* C11 (as claimed; the code does not satisfy it): for every input text each of
\* the three markup builders (lesson, doubt, standalone audio) turns every & < >
\* " ' outside pause directives into its entity exactly once and leaves every
\* <break ...> directive of the input unescaped, unchanged and in its place.
C11_BuildersEscapeAndKeepPauses ==
    probe.fn = "buildSSML" =>
        /\ SsmlBody(probe.lesson, OneLineOpen, OneLineClose)
              = EscapedOutsidePauses(probe.parts)
        /\ SsmlBody(probe.doubt, OneLineOpen, OneLineClose)
              = EscapedOutsidePauses(probe.parts)
        /\ SsmlBody(probe.audio, ManyLinesOpen, ManyLinesClose)
              = EscapedOutsidePauses(probe.parts)

(***************************************************************************)
(* parseLesson applied on its own to texts of paragraphs that the two      *)
(* length filters keep or drop, and to the fallback content.               *)
(***************************************************************************)
\* a paragraph of 36 characters; one whose label goes and leaves 37; one of 31
\* that is left with 17 once its label is gone; one of 10
KeptParagraph == "Plants make their food in the leaf."
LabelledParagraph == "Introduction:  A plant has roots, a stem and leaves."
ThinParagraph == "Explanation: roots drink water."
ShortParagraph == "short line"

Paragraphs == {KeptParagraph, LabelledParagraph, ThinParagraph, ShortParagraph}

BlankLines == {"\n\n", "\n \t\n\n"}

RECURSIVE joinParagraphs(_, _)
joinParagraphs(parts, sep) ==
    IF parts = <<>> THEN ""
    ELSE IF Len(parts) = 1 THEN Head(parts)
    ELSE Head(parts) \o sep \o joinParagraphs(Tail(parts), sep)

ParseTopics == {"Plant"}

ParseProbe(parts, rawText, topic, gradeLevel) ==
    /\ probe.fn = "none"
    /\ probe' = [fn |-> "parseLesson", parts |-> parts, rawText |-> rawText,
                 topic |-> topic, gradeLevel |-> gradeLevel,
                 lesson |-> parseLesson(rawText, topic, gradeLevel)]
    /\ UNCHANGED <<now, req, lessonVars, doubtVars, audioVars, diagramVars,
                   upstream, ops, adminRes, NODE_ENV>>

ParseNext ==
    \E topic \in ParseTopics, gradeLevel \in {MIN_GRADE, MAX_GRADE} :
        \/ \E parts \in SeqsUpTo(Paragraphs, MaxParagraphs), sep \in BlankLines :
              ParseProbe(parts, joinParagraphs(parts, sep), topic, gradeLevel)
        \/ ParseProbe(<<>>, generateFallbackContent(topic, gradeLevel, "English"),
                      topic, gradeLevel)

SpecParse == Init /\ [][ParseNext]_vars

\* what the filters have to keep of the generated paragraphs, in order
RECURSIVE KeptOf(_)
KeptOf(parts) ==
    IF parts = <<>> THEN <<>>
    ELSE (IF Head(parts) = KeptParagraph THEN <<KeptParagraph>>
          ELSE IF Head(parts) = LabelledParagraph
          THEN <<"A plant has roots, a stem and leaves.">>
          ELSE <<>>) \o KeptOf(Tail(parts))

PlaceholderFor(topic, gradeLevel) ==
    "Content about " \o topic \o " for grade " \o intToString(gradeLevel) \o "."

SectionsOf(lesson) ==
    <<lesson.introduction, lesson.explanation, lesson.analogy, lesson.recap>>

\* C12: for every raw text, also one with fewer than four paragraphs of
\* sufficient length and the fallback content, parseLesson returns four
\* non-empty sections: the kept paragraphs in order, then the placeholder
\* paragraph for every missing one.
C12_FourSectionsNeverEmpty ==
    probe.fn = "parseLesson" =>
        /\ \A i \in 1..4 : SectionsOf(probe.lesson)[i] # ""
        /\ \A i \in 1..4 :
              LET kept == IF probe.parts = <<>>
                          THEN SelectSeq(splitParagraphs(probe.rawText),
                                         LAMBDA p : Len(p) > 30)
                          ELSE KeptOf(probe.parts)
              IN  SectionsOf(probe.lesson)[i] =
                      IF i <= Len(kept) THEN kept[i]
                      ELSE PlaceholderFor(probe.topic, probe.gradeLevel)

\* C12 witness: a text of three paragraphs of which the filters keep one, and
\* the three other sections hold the placeholder
C12_PaddedAfterOneParagraph ==
    /\ probe.fn = "parseLesson"
    /\ Len(probe.parts) = 3
    /\ Len(KeptOf(probe.parts)) = 1
    /\ probe.lesson.introduction = KeptOf(probe.parts)[1]
    /\ probe.lesson.explanation = PlaceholderFor(probe.topic, probe.gradeLevel)
    /\ probe.lesson.recap = PlaceholderFor(probe.topic, probe.gradeLevel)

\* the arguments of lesson request r, from its body
TopicOf(r) == req[r].body.topic.s
GradeOf(r) == gradeOrDefault(req[r].body.grade)
LangOf(r) == stringOr(req[r].body.language, "English")

\* lesson request r has called the generator
CalledGenerator(r) ==
    /\ req[r].pc # "idle"
    /\ req[r].kind = "lesson"
    /\ req[r].h.gen >= 1

\* C13: a lesson request that misses the cache calls the lesson generator at
\* most 2 times. When every call returned an empty text or one under 100
\* characters and none threw, there were 2 calls, the loop has ended, the
\* content is the locally synthesized fallback content, and the request is
\* answered with status 200 and the lesson parsed from it, never an error.
C13_RetryEndsInFallback ==
    \A r \in ReqIds :
        CalledGenerator(r) =>
            /\ req[r].h.gen <= 2
            /\ req[r].h.short = req[r].h.gen =>
                  /\ req[r].h.gen = 2
                  /\ req[r].pc # "generate"
                  /\ req[r].h.fallback
                  /\ req[r].h.content =
                        generateFallbackContent(TopicOf(r), GradeOf(r), LangOf(r))
                  /\ req[r].pc = "done" =>
                        /\ req[r].status = 200
                        /\ "error" \notin DOMAIN req[r].json
                        /\ SectionsOf(req[r].json.lesson) =
                              SectionsOf(parseLesson(
                                  generateFallbackContent(TopicOf(r), GradeOf(r), LangOf(r)),
                                  TopicOf(r), GradeOf(r)))

\* C13 witness: a request answered after two calls that both returned too
\* little
C13_AnsweredAfterTwoShortTexts ==
    \E r \in ReqIds :
        /\ CalledGenerator(r)
        /\ req[r].pc = "done"
        /\ req[r].h.short = 2
        /\ req[r].status = 200
        /\ req[r].h.fallback

\* a text holds one of the refusal phrases
IsRefusal(text) ==
    includes(text, "unable to respond") \/ includes(text, "cannot assist")

\* C14: a response of the lesson generator that holds a refusal phrase is
\* unusable whatever its length: no request hands it to parseLesson and no
\* section of a stored lesson comes from it.
C14_RefusalIsNeverParsedOrStored ==
    /\ \A r \in ReqIds :
          CalledGenerator(r) => ~IsRefusal(req[r].h.content)
    /\ \A key \in DOMAIN lessonCache :
          \A i \in 1..4 : ~IsRefusal(SectionsOf(lessonCache[key].v)[i])

\* lesson request r was answered with a lesson made of the fallback content,
\* which it stored
AnsweredWithFallback(r) ==
    /\ LessonAnswered(r)
    /\ req[r].status = 200
    /\ req[r].h.fallback
    /\ req[r].h.putOps > 0

\* C15: a lesson request that ends with the fallback content stores that lesson
\* under its key: while no later write or flush has touched the lesson cache and
\* the time to live has not elapsed, the entry of the key holds the lesson that
\* was answered; and a later request for the same topic, grade and language that
\* looks up then is answered cached = true with that lesson and calls the lesson
\* generator no more.
C15_FallbackLessonIsStored ==
    /\ \A r \in ReqIds :
          ( /\ AnsweredWithFallback(r)
            /\ ops.lesson = req[r].h.putOps
            /\ now <= req[r].json.lesson.timestamp + LessonCacheTTL )
              => LET key == getLessonCacheKey(TopicOf(r), GradeOf(r), LangOf(r))
                 IN  /\ key \in DOMAIN lessonCache
                     /\ lessonCache[key].v = req[r].json.lesson
                     /\ SectionsOf(lessonCache[key].v) =
                           SectionsOf(parseLesson(
                               generateFallbackContent(TopicOf(r), GradeOf(r), LangOf(r)),
                               TopicOf(r), GradeOf(r)))
    /\ \A r1, r2 \in ReqIds :
          ( /\ AnsweredWithFallback(r1)
            /\ LooksUpAfterStore(r1, r2)
            /\ req[r2].h.sawAt <= req[r1].json.lesson.timestamp + LessonCacheTTL )
              => /\ req[r2].h.gen = 0
                 /\ req[r2].pc = "done" =>
                       /\ req[r2].status = 200
                       /\ req[r2].json.cached = TRUE
                       /\ req[r2].json.lesson = req[r1].json.lesson

\* C15 witness: two calls returned too little, the fallback lesson was answered,
\* and the same body sent again was served from the cache
C15_FallbackServedFromCache ==
    \E r1, r2 \in ReqIds :
        /\ AnsweredWithFallback(r1)
        /\ req[r1].h.short = 2
        /\ LooksUpAfterStore(r1, r2)
        /\ req[r1].body = req[r2].body
        /\ req[r2].pc = "done"
        /\ req[r2].json.cached = TRUE
        /\ req[r2].h.gen = 0

(***************************************************************************)
(* The lesson and doubt routes with the clock: one request at a time, for  *)
(* one lesson and one question, and ticks of the audio time to live and of *)
(* one second more, which outlasts the audio entry of a lesson and both    *)
(* entries of a doubt.                                                     *)
(***************************************************************************)
NarrationLessonBodies ==
    {b \in LessonBodies : b.topic = JStr("Plant") /\ b.language = JStr("English")}

NarrationDoubtBodies ==
    {b \in DoubtBodies : b.question = JStr(DoubtQuestion) /\ b.language = JStr("English")}

NarrationNext ==
    \/ \E r \in ReqIds, body \in NarrationLessonBodies : Quiet /\ LessonPost(r, body)
    \/ \E r \in ReqIds, out \in LessonOutcomesPlain : LessonGenerateReturns(r, out)
    \/ \E r \in ReqIds, out \in QuizOutcomes : LessonQuizReturns(r, out)
    \/ \E r \in ReqIds, out \in PollyOutcomes : LessonPollyReturns(r, out)
    \/ \E r \in ReqIds, body \in NarrationDoubtBodies : Quiet /\ DoubtPost(r, body)
    \/ \E r \in ReqIds, out \in DoubtOutcomes : DoubtAnswerReturns(r, out)
    \/ \E r \in ReqIds, out \in PollyOutcomes : DoubtPollyReturns(r, out)
    \/ \E d \in {LessonAudioCacheTTL, LessonAudioCacheTTL + 1} : Quiet /\ Tick(d)

SpecNarration == Init /\ [][NarrationNext]_vars

\* request r arrives in this step and finds its text stored: it looks up and
\* calls no text model
TextHitArrival(r) ==
    /\ req[r].pc = "idle"
    /\ req'[r].pc # "idle"
    /\ req'[r].kind \in {"lesson", "doubt"}
    /\ req'[r].h.looked
    /\ req'[r].h.gen = 0

\* the audio key of a request with the given body that found its text stored
NarrationKey(kind, b) ==
    IF kind = "lesson"
    THEN Lesson_getAudioCacheKey(b.topic.s, gradeOrDefault(b.grade),
                                 stringOr(b.language, "English"))
    ELSE getDoubtAudioCacheKey(
             doubtCache[getDoubtCacheKey(b.question.s, gradeOrDefault(b.grade),
                                         stringOr(b.language, "English"))].v,
             stringOr(b.language, "English"))

NarrationCache(kind) == IF kind = "lesson" THEN lessonAudioCache ELSE doubtAudioCache

\* the audio entry of the key is present and its hour has not elapsed
NarrationStored(kind, b) ==
    LET key == NarrationKey(kind, b)
        cache == NarrationCache(kind)
    IN  key \in DOMAIN cache /\ (cache[key].t = 0 \/ cache[key].t >= now)

\* the audio counters of a route move by the given amounts in this step
NarrationCounted(kind, calls, hits) ==
    IF kind = "lesson"
    THEN audioApiCalls' = audioApiCalls + calls /\ audioCacheHits' = audioCacheHits + hits
    ELSE /\ doubtAudioApiCalls' = doubtAudioApiCalls + calls
         /\ doubtAudioCacheHits' = doubtAudioCacheHits + hits

\* a request that found its text stored looks the audio up on its own: a stored
\* audio entry is a hit of the audio cache and no call; without one, speech
\* synthesis is called and no hit is counted
NarrationLookedUp(r) ==
    TextHitArrival(r) =>
        IF NarrationStored(req'[r].kind, req'[r].body)
        THEN /\ NarrationCounted(req'[r].kind, 0, 1)
             /\ upstream'.polly = upstream.polly
             /\ req'[r].pc = "done"
             /\ req'[r].json.cached = TRUE
             /\ req'[r].json.audio.cached = TRUE
        ELSE /\ NarrationCounted(req'[r].kind, 0, 0)
             /\ upstream'.polly = upstream.polly + 1
             /\ req'[r].pc = "polly"

\* request r, which found its text stored and called speech synthesis, is
\* answered in this step
HitAnsweredAfterCall(r) ==
    /\ req[r].pc = "polly"
    /\ req[r].kind \in {"lesson", "doubt"}
    /\ req[r].h.gen = 0
    /\ req'[r].pc = "done"

\* C16 as stated: after a hit on the text, without a stored audio entry, the
\* answer tagged cached = true comes with one more audio API call counted and no
\* audio hit.
C16_CallAlwaysCounted ==
    [][\A r \in ReqIds :
          /\ NarrationLookedUp(r)
          /\ HitAnsweredAfterCall(r) =>
                /\ req'[r].status = 200
                /\ req'[r].json.cached = TRUE
                /\ NarrationCounted(req[r].kind, 1, 0)]_vars

\* C16 amended: as above, where the call is counted when it returns the audio
\* and a call that throws moves neither counter.
C16_TextAndAudioCachedApart ==
    [][\A r \in ReqIds :
          /\ NarrationLookedUp(r)
          /\ HitAnsweredAfterCall(r) =>
                /\ req'[r].status = 200
                /\ req'[r].json.cached = TRUE
                /\ IF req'[r].json.audio = Null
                   THEN NarrationCounted(req[r].kind, 0, 0)
                   ELSE /\ NarrationCounted(req[r].kind, 1, 0)
                        /\ req'[r].json.audio.cached = FALSE]_vars

\* C16 witness: a lesson request served from the lesson cache after the audio
\* entry had expired, answered cached = true with newly synthesized audio
C16_HitWithNewAudio ==
    \E r \in ReqIds :
        /\ req[r].pc = "done"
        /\ req[r].kind = "lesson"
        /\ req[r].status = 200
        /\ req[r].json.cached = TRUE
        /\ req[r].h.polly = 1
        /\ req[r].json.audio # Null
        /\ req[r].json.audio.cached = FALSE
        /\ req[r].h.sawAt > LessonAudioCacheTTL

(***************************************************************************)
(* needsVisualDiagram applied on its own to topics in several spellings.   *)
(***************************************************************************)
\* topics that hold a keyword (photosynthesis; water cycle, cycle; graph; ph;
\* plant) and topics that hold none
VisualCores == {"Photosynthesis", "The Water Cycle", "Bar graphs", "pH", "My plants"}
PlainCores == {"Classroom Etiquette", "Poem", "Good manners", "Votes"}

\* s with every p-th letter in upper case and the others in lower case
RECURSIVE Recase(_, _, _)
Recase(s, p, i) ==
    IF s = "" THEN ""
    ELSE (IF i % p = 0 THEN UpperChar(Head(s)) ELSE LowerChar(Head(s)))
         \o Recase(Tail(s), p, i + 1)

Spellings(core) ==
    {core, toLowerCase(core)} \cup {Recase(core, p, 1) : p \in 1..MaxStride}

VisualProbe(core, topic) ==
    /\ probe.fn = "none"
    /\ probe' = [fn |-> "needsVisualDiagram", core |-> core, topic |-> topic,
                 visual |-> needsVisualDiagram(topic)]
    /\ UNCHANGED <<now, req, lessonVars, doubtVars, audioVars, diagramVars,
                   upstream, ops, adminRes, NODE_ENV>>

VisualNext ==
    \E core \in VisualCores \cup PlainCores :
        \E l \in Pads, v \in Spellings(core), r \in Pads :
            VisualProbe(core, l \o v \o r)

SpecVisual == Init /\ [][VisualNext]_vars

\* some keyword of the list occurs in s
HoldsKeyword(s) ==
    \E k \in 1..Len(visualTopics) :
        \E i \in 1..Len(s) :
            i + Len(visualTopics[k]) - 1 <= Len(s)
            /\ SubSeq(s, i, i + Len(visualTopics[k]) - 1) = visualTopics[k]

\* C17: needsVisualDiagram(topic) is true exactly when the topic, in lower case
\* and without the blanks around it, holds a keyword of the list; so it is true
\* of "Photosynthesis" and false of "Classroom Etiquette", in every spelling in
\* upper and lower case and with blanks around.
C17_VisualExactlyWithKeyword ==
    probe.fn = "needsVisualDiagram" =>
        /\ probe.visual = HoldsKeyword(toLowerCase(probe.core))
        /\ probe.visual = (probe.core \in VisualCores)
        /\ probe.core = "Photosynthesis" => probe.visual
        /\ probe.core = "Classroom Etiquette" => ~probe.visual

\* C17 witness: a spelling of "Photosynthesis" other than the keyword's, with
\* blanks around it, was recognised
C17_UpperCasePhotosynthesis ==
    /\ probe.fn = "needsVisualDiagram"
    /\ probe.topic = " PHOTOSYNTHESIS\n"
    /\ probe.visual

\* the members of a lesson or doubt response whose audio was made
PlainMembers == {"lesson", "answer", "audio", "cached", "stats"}

\* C18: a lesson or doubt request whose speech synthesis failed is answered with
\* status 200 and audio = null and with a further member that tells of the
\* failure (an indicator or a message), which a response with audio does not
\* have.
C18_AudioFailureIsReported ==
    \A r \in ReqIds :
        ( /\ req[r].pc = "done"
          /\ req[r].kind \in {"lesson", "doubt"}
          /\ req[r].h.pollyFailed )
            => /\ req[r].status = 200
               /\ req[r].json.audio = Null
               /\ DOMAIN req[r].json \ PlainMembers # {}

\* the name of a rule when it is violated
RuleIf(name, violated) == IF violated THEN {name} ELSE {}

\* a text member is missing or blank; it is longer than n
Blank(v) == IF Truthy(v) THEN trim(v.s) = "" ELSE TRUE
LongerThan(v, n) == IF Truthy(v) THEN Len(v.s) > n ELSE FALSE

\* the validation rules a body violates, by name
Violated(kind, b) ==
    IF kind = "lesson"
    THEN RuleIf("topic", Blank(b.topic))
         \cup RuleIf("length", LongerThan(b.topic, 200))
         \cup RuleIf("grade", gradeOrDefault(b.grade) \notin 1..12)
         \cup RuleIf("language",
                     ~InSeq(VALID_LANGUAGES, stringOr(b.language, "English")))
    ELSE IF kind = "doubt"
    THEN RuleIf("question", Blank(b.question))
         \cup RuleIf("length", LongerThan(b.question, 500))
    ELSE IF kind = "audio"
    THEN RuleIf("text", Blank(b.text))
         \cup RuleIf("length", IF Truthy(b.text) THEN Len(trim(b.text.s)) > 3000
                               ELSE FALSE)
    ELSE RuleIf("topic", ~Truthy(b.topic))
         \cup RuleIf("length", LongerThan(b.topic, 200))
         \cup RuleIf("style", ~InSeq(VALID_STYLES, stringOr(b.style, "iconic")))

\* the number of violations an error response lists: the members of `errors`,
\* or the one message of `error`
Listed(json) ==
    IF "errors" \in DOMAIN json THEN Len(json.errors)
    ELSE IF "error" \in DOMAIN json THEN 1 ELSE 0

\* C19: in each of the four routes a request whose body violates two or more
\* validation rules is answered with status 400 and an error that lists every
\* one of the violated rules.
C19_EveryViolationListed ==
    \A r \in ReqIds :
        (req[r].pc = "done" /\ Cardinality(Violated(req[r].kind, req[r].body)) >= 2)
            => /\ req[r].status = 400
               /\ Listed(req[r].json) = Cardinality(Violated(req[r].kind, req[r].body))

(***************************************************************************)
(* getLessonCacheKey applied to pairs of valid requests whose topics hold  *)
(* the separator and digits.                                               *)
(***************************************************************************)
\* two grades of which one is the other followed by a digit of the topics
ProbeGrades == {MIN_GRADE, MAX_GRADE - 1}
ProbeLanguages == {"English", "Hindi"}

\* short topics over a letter, the separator and a digit; topics that end like
\* a key does; and other spellings of some of them
ProbeTopics ==
    (StringsUpTo({"a", "_", "1"}, MaxTopicChars) \ {""})
    \cup {t \o "_" \o intToString(g) \o "_" \o toLowerCase(l) :
             t \in {"a", "_"}, g \in ProbeGrades, l \in ProbeLanguages}
    \cup {"A", " a ", " A_1\n"}

LessonKeyProbe(a, b) ==
    /\ probe.fn = "none"
    /\ probe' = [fn |-> "lessonKeys", a |-> a, b |-> b,
                 valid |-> /\ validateInput(a.topic, a.grade, a.language) = << >>
                           /\ validateInput(b.topic, b.grade, b.language) = << >>,
                 keyA |-> getLessonCacheKey(a.topic, a.grade, a.language),
                 keyB |-> getLessonCacheKey(b.topic, b.grade, b.language)]
    /\ UNCHANGED <<now, req, lessonVars, doubtVars, audioVars, diagramVars,
                   upstream, ops, adminRes, NODE_ENV>>

LessonKeysNext ==
    \E a, b \in [topic : ProbeTopics, grade : ProbeGrades, language : ProbeLanguages] :
        LessonKeyProbe(a, b)

SpecLessonKeys == Init /\ [][LessonKeysNext]_vars

\* the triple a lesson key stands for
Normalized(a) == <<trim(toLowerCase(a.topic)), a.grade, toLowerCase(a.language)>>

\* C20: two requests that pass the validation of the lesson route get the same
\* lesson key if and only if their topics in lower case without outer blanks,
\* their grades and their languages in lower case are equal, also when a topic
\* holds '_' or digits.
C20_LessonKeyInjective ==
    (probe.fn = "lessonKeys" /\ probe.valid) =>
        ((probe.keyA = probe.keyB) <=> (Normalized(probe.a) = Normalized(probe.b)))

\* C20 witness: a topic that ends like the key of another request (the
\* separator, the grade, the separator, the language) got a key of its own
C20_TopicEndingLikeAKey ==
    /\ probe.fn = "lessonKeys"
    /\ probe.valid
    /\ probe.a = [topic |-> "a_1_english", grade |-> 1, language |-> "English"]
    /\ probe.b = [topic |-> "a", grade |-> 1, language |-> "English"]
    /\ probe.keyA = "lesson_a_1_english_1_english"
    /\ probe.keyB = "lesson_a_1_english"

\* all caches and all counters of the four routes
AllCaches ==
    <<lessonCache, lessonAudioCache, doubtCache, doubtAudioCache, audioCache,
      diagramCache>>

AllCounters ==
    <<apiCallCount, cacheHitCount, audioApiCalls, audioCacheHits, doubtApiCalls,
      doubtCacheHits, doubtAudioApiCalls, doubtAudioCacheHits, audioApiCallCount,
      audioCacheHitCount, imageApiCallCount, imageCacheHitCount>>

\* the upstream call of diagram or standalone audio request r ends in this step
\* with a throttling error
ThrottledNow(r) ==
    /\ req[r].pc \in {"polly", "image"}
    /\ req[r].kind \in {"audio", "diagram"}
    /\ req'[r].pc = "done"
    /\ req'[r].h.threw = "ThrottlingException"

\* C21: when the upstream call of a diagram request or of a standalone audio
\* request throws a throttling error, the request is answered with status 429 in
\* that step; no further upstream call is made (the request has made exactly
\* one), no cache is written and no API-call or cache-hit counter changes.
C21_ThrottlingIsNotRetried ==
    [][\A r \in ReqIds :
          ThrottledNow(r) =>
              /\ req'[r].status = 429
              /\ upstream' = upstream
              /\ req'[r].h.gen + req'[r].h.polly = 1
              /\ AllCaches' = AllCaches
              /\ AllCounters' = AllCounters]_vars

\* C21 witness: a throttled diagram request and a throttled standalone audio
\* request, both answered 429
C21_BothThrottled ==
    \E r1, r2 \in ReqIds :
        /\ req[r1].pc = "done" /\ req[r1].kind = "diagram"
        /\ req[r2].pc = "done" /\ req[r2].kind = "audio"
        /\ \A r \in {r1, r2} :
              /\ req[r].h.threw = "ThrottlingException"
              /\ req[r].status = 429
        /\ upstream.image = 1
        /\ upstream.polly = 1

\* ---------------------------------------------------------------------------
\* A body of the image model without a picture

\* bedrock.send of request r returns in this step a body with neither an images
\* nor an artifacts member
NoPictureNow(r) ==
    /\ req[r].pc = "image"
    /\ req'[r].pc = "done"
    /\ req'[r].h.threw = ""
    /\ req'[r].h.shape \cap {"images", "artifacts"} = {}

\* request r2 looked its diagram key up after r1 was answered without a picture
\* and no write to the diagram cache came between the two lookups
SameKeyAfterNoPicture(r1, r2) ==
    /\ r1 < r2
    /\ req[r1].pc = "done" /\ req[r1].kind = "diagram"
    /\ req[r1].h.gen = 1 /\ req[r1].h.threw = ""
    /\ req[r1].h.shape \cap {"images", "artifacts"} = {}
    /\ req[r2].pc # "idle" /\ req[r2].kind = "diagram"
    /\ req[r2].body = req[r1].body
    /\ req[r2].h.looked
    /\ req[r2].h.sawOps = req[r1].h.sawOps

\* C22: when the image model returns a body with neither an images nor an
\* artifacts member, POST /api/diagram answers 500, writes nothing to any cache
\* and leaves the counters as they are, and the next request for the same
\* topic, grade and style finds no entry and calls the image model again.
C22_NoPictureIsNotStored ==
    [][/\ \A r \in ReqIds :
             NoPictureNow(r) =>
                 /\ req'[r].status = 500
                 /\ AllCaches' = AllCaches
                 /\ AllCounters' = AllCounters
       /\ \A r1, r2 \in ReqIds :
             SameKeyAfterNoPicture(r1, r2)' => req'[r2].h.gen = 1]_vars

C22_AskedAgainAfterNoPicture ==
    \E r1, r2 \in ReqIds :
        /\ SameKeyAfterNoPicture(r1, r2)
        /\ req[r1].status = 500
        /\ req[r2].pc = "done" /\ req[r2].status = 200
        /\ upstream.image = 2

\* ---------------------------------------------------------------------------
\* The four routes with their cache-clearing endpoints, one request at a time

\* two bodies with keys of their own and one that is turned away
AdminDiagramBodies ==
    { [topic |-> JStr("Plant"), grade |-> JNum(6), style |-> JUndef],
      [topic |-> JStr("Plant"), grade |-> JNum(6), style |-> JStr("flow")],
      [topic |-> JUndef, grade |-> JNum(6), style |-> JUndef] }

AdminNext ==
    \/ \E r \in ReqIds, body \in LessonBodiesSameTopic : Quiet /\ LessonPost(r, body)
    \/ \E r \in ReqIds, out \in LessonOutcomesPlain : LessonGenerateReturns(r, out)
    \/ \E r \in ReqIds, out \in QuizOutcomes : LessonQuizReturns(r, out)
    \/ \E r \in ReqIds, out \in PollyOutcomes : LessonPollyReturns(r, out)
    \/ \E r \in ReqIds, body \in DoubtBodies : Quiet /\ DoubtPost(r, body)
    \/ \E r \in ReqIds, out \in DoubtOutcomes : DoubtAnswerReturns(r, out)
    \/ \E r \in ReqIds, out \in PollyOutcomes : DoubtPollyReturns(r, out)
    \/ \E r \in ReqIds, body \in AudioBodies : Quiet /\ AudioPost(r, body)
    \/ \E r \in ReqIds, out \in AudioPollyOutcomes : AudioPollyReturns(r, out)
    \/ \E r \in ReqIds, body \in AdminDiagramBodies : Quiet /\ DiagramPost(r, body)
    \/ \E r \in ReqIds, out \in ImageOutcomes : DiagramImageReturns(r, out)
    \/ Quiet /\ LessonClearCache
    \/ Quiet /\ DoubtClearCache
    \/ Quiet /\ AudioClearCache
    \/ \E query \in DiagramQueries : Quiet /\ DiagramClearCache(query)

SpecAdmin == Init /\ [][AdminNext]_vars

\* a cache-clearing endpoint answers in this step
ClearedNow == ops'.flushes = ops.flushes + 1

\* C23: each of the twelve apiCalls and cacheHits counters either stays as it
\* is or grows by one in every step of every route, and stays as it is in every
\* step of a DELETE cache endpoint.
C23_CountersOnlyGrow ==
    [][/\ \A i \in DOMAIN AllCounters :
             AllCounters'[i] \in {AllCounters[i], AllCounters[i] + 1}
       /\ ClearedNow => AllCounters' = AllCounters]_vars

C23_ClearedWithCounts ==
    /\ ops.flushes = 1
    /\ audioCache = EmptyCache
    /\ audioApiCallCount = 1
    /\ audioCacheHitCount = 1

\* ---------------------------------------------------------------------------
\* Narration text over the character budget

\* a lesson whose second paragraph alone is longer than the budget
LessonTextLong ==
    "Let's learn about plants. Plants are living things that grow in soil.\n\n"
    \o repeat("Plants make food from sunlight. ", 100) \o "\n\n"
    \o "For example, a mango tree grows from one small seed in the ground.\n\n"
    \o "To summarize, plants grow, make food and give us fresh air."

DoubtAnswerLong == repeat("The sky scatters blue light most. ", 100)

LongAudioBodies ==
    {b \in AudioBodies : b.language \in {JStr("English"), JStr("Hindi")}}

LongNext ==
    \/ \E r \in ReqIds, body \in NarrationLessonBodies : Quiet /\ LessonPost(r, body)
    \/ \E r \in ReqIds, out \in TextOutcomes({LessonTextA, LessonTextLong}) :
           LessonGenerateReturns(r, out)
    \/ \E r \in ReqIds, out \in QuizOutcomes : LessonQuizReturns(r, out)
    \/ \E r \in ReqIds, out \in PollyOutcomes : LessonPollyReturns(r, out)
    \/ \E r \in ReqIds, body \in NarrationDoubtBodies : Quiet /\ DoubtPost(r, body)
    \/ \E r \in ReqIds, out \in DoubtOutcomes \cup {Returned(DoubtAnswerLong)} :
           DoubtAnswerReturns(r, out)
    \/ \E r \in ReqIds, out \in PollyOutcomes : DoubtPollyReturns(r, out)
    \/ \E r \in ReqIds, body \in LongAudioBodies : Quiet /\ AudioPost(r, body)
    \/ \E r \in ReqIds, out \in AudioPollyOutcomes : AudioPollyReturns(r, out)

SpecLong == Init /\ [][LongNext]_vars

\* the text generateLessonAudio is called with
NarrationOf(lesson) ==
    lesson.title \o ". " \o lesson.introduction \o " " \o lesson.explanation

\* request r of a route with automatic narration is at polly.send with a
\* narration text longer than the budget
LongNarrationAtPolly(r) ==
    /\ req[r].pc = "polly"
    /\ \/ req[r].kind = "lesson" /\ Len(NarrationOf(req[r].lesson)) > 3000
       \/ req[r].kind = "doubt" /\ Len(req[r].answer) > 3000

\* the markup of the first 3000 characters of the narration followed by "..."
CutMarkup(r) ==
    IF req[r].kind = "lesson"
    THEN Lesson_buildSSML(substring(NarrationOf(req[r].lesson), 0, 3000) \o "...")
    ELSE Doubt_buildSSML(substring(req[r].answer, 0, 3000) \o "...")

\* request r of a route with automatic narration has been answered after a
\* speech call for a narration text longer than the budget
LongNarrationAnswered(r) ==
    /\ req[r].pc = "done"
    /\ req[r].h.polly = 1
    /\ \/ req[r].kind = "lesson" /\ Len(NarrationOf(req[r].json.lesson)) > 3000
       \/ req[r].kind = "doubt" /\ Len(req[r].json.answer) > 3000

\* request r of POST /api/audio has been answered and its trimmed text is
\* longer than the budget
LongAudioAnswered(r) ==
    /\ req[r].pc = "done"
    /\ req[r].kind = "audio"
    /\ Truthy(req[r].body.text)
    /\ Len(trim(req[r].body.text.s)) > 3000

\* C24 as stated: in the lesson, doubt and standalone audio routes narration
\* text longer than 3000 characters is cut to 3000 characters followed by an
\* ellipsis and synthesized, and is never answered with an error.
C24_LongTextIsAlwaysCut ==
    \A r \in ReqIds :
        /\ LongNarrationAtPolly(r) => req[r].ssmlText = CutMarkup(r)
        /\ LongNarrationAnswered(r) => req[r].status = 200
        /\ LongAudioAnswered(r) => req[r].h.polly = 1 /\ req[r].status # 400

\* C24 as amended: the lesson and doubt routes cut narration text longer than
\* 3000 characters to 3000 characters followed by an ellipsis, synthesize it
\* and answer 200; POST /api/audio answers text longer than 3000 characters
\* with 400 and makes no speech call.
C24_AutoNarrationIsCut ==
    \A r \in ReqIds :
        /\ LongNarrationAtPolly(r) => req[r].ssmlText = CutMarkup(r)
        /\ LongNarrationAnswered(r) => req[r].status = 200
        /\ LongAudioAnswered(r) =>
               /\ req[r].h.polly = 0
               /\ req[r].status = 400
               /\ req[r].json.maxLength = 3000

C24_LongLessonAndLongAudio ==
    \E r1, r2 \in ReqIds :
        /\ LongNarrationAnswered(r1) /\ req[r1].kind = "lesson"
        /\ req[r1].json.audio # Null
        /\ LongAudioAnswered(r2) /\ req[r2].status = 400

\* ---------------------------------------------------------------------------
\* POST /api/transcribe and the detail of a thrown error in the response

\* languageCodeMap[language] || "en-US"
Transcribe_languageCode(language) ==
    CASE language = "English" -> "en-US"
      [] language \in {"Hindi", "Marathi"} -> "hi-IN"
      [] language = "Tamil" -> "ta-IN"
      [] language = "Telugu" -> "te-IN"
      [] language = "Bengali" -> "bn-IN"
      [] language = "Gujarati" -> "gu-IN"
      [] language = "Kannada" -> "kn-IN"
      [] language = "Malayalam" -> "ml-IN"
      [] OTHER -> "en-US"

\* dgResponse?.result?.results?.channels[0].alternatives[0].transcript, or ""
Transcript(dgResponse) ==
    LET channels == IF "result" \in DOMAIN dgResponse
                    THEN dgResponse.result.results.channels
                    ELSE <<>>
        alternatives == IF Len(channels) > 0 THEN channels[1].alternatives ELSE <<>>
    IN  IF Len(alternatives) > 0 THEN alternatives[1].transcript ELSE ""

\* router.post("/") of routes/transcribe.js up to transcribeFile
TranscribePost(r, body) ==
    /\ Arrives(r)
    /\ UNCHANGED <<now, lessonVars, doubtVars, audioVars, diagramVars, upstream, ops,
                   probe, adminRes, NODE_ENV>>
    /\ IF ~Truthy(body.audioData)
       THEN req' = [req EXCEPT ![r] =
                Done("transcribe", body, 400, [error |-> "No audio data provided"],
                     NoHistory)]
       ELSE req' = [req EXCEPT ![r] =
                [pc |-> "deepgram", kind |-> "transcribe", body |-> body,
                 languageCode |->
                     Transcribe_languageCode(stringOr(body.language, "English")),
                 h |-> [NoHistory EXCEPT !.gen = 1]]]

\* String(error) of an error without a message is its name
Transcribe_details(error) ==
    IF messageOf(error) # "" THEN messageOf(error) ELSE error.name

\* transcribeFile settles: the transcript is sent, or the catch block answers
TranscribeReturns(r, out) ==
    /\ req[r].pc = "deepgram"
    /\ req[r].kind = "transcribe"
    /\ UNCHANGED <<now, lessonVars, doubtVars, audioVars, diagramVars, upstream, ops,
                   probe, adminRes, NODE_ENV>>
    /\ IF out.threw
       THEN req' = [req EXCEPT ![r] =
                Done("transcribe", req[r].body, 500,
                     [error |-> "Transcription failed",
                      details |-> Transcribe_details(out)],
                     [req[r].h EXCEPT !.threw = out.name])]
       ELSE req' = [req EXCEPT ![r] =
                Done("transcribe", req[r].body, 200,
                     [success |-> TRUE, transcription |-> trim(Transcript(out.value)),
                      raw |-> out.value],
                     req[r].h)]

TranscribeBodies ==
    { [audioData |-> JStr("UklGRg=="), language |-> JStr("Hindi")],
      [audioData |-> JStr("UklGRg=="), language |-> JUndef],
      [audioData |-> JUndef, language |-> JStr("English")] }

TranscribeOutcomes ==
    { Returned([result |-> [results |-> [channels |->
          << [alternatives |-> << [transcript |-> " what is a plant "] >>] >>]]]),
      Returned([result |-> [results |-> [channels |-> <<>>]]]),
      ThrownMessage("Error", "401 Unauthorized: invalid API key"),
      Thrown("TypeError") }

BuildNext ==
    \/ \E r \in ReqIds, body \in NarrationLessonBodies : Quiet /\ LessonPost(r, body)
    \/ \E r \in ReqIds, out \in LessonOutcomesPlain : LessonGenerateReturns(r, out)
    \/ \E r \in ReqIds, out \in QuizOutcomes : LessonQuizReturns(r, out)
    \/ \E r \in ReqIds, out \in PollyOutcomes : LessonPollyReturns(r, out)
    \/ \E r \in ReqIds, body \in NarrationDoubtBodies : Quiet /\ DoubtPost(r, body)
    \/ \E r \in ReqIds, out \in DoubtOutcomes : DoubtAnswerReturns(r, out)
    \/ \E r \in ReqIds, out \in PollyOutcomes : DoubtPollyReturns(r, out)
    \/ \E r \in ReqIds, body \in LongAudioBodies : Quiet /\ AudioPost(r, body)
    \/ \E r \in ReqIds, out \in AudioPollyOutcomes : AudioPollyReturns(r, out)
    \/ \E r \in ReqIds, body \in DiagramBodies : Quiet /\ DiagramPost(r, body)
    \/ \E r \in ReqIds, out \in ImageOutcomes : DiagramImageReturns(r, out)
    \/ \E r \in ReqIds, body \in TranscribeBodies : Quiet /\ TranscribePost(r, body)
    \/ \E r \in ReqIds, out \in TranscribeOutcomes : TranscribeReturns(r, out)

SpecBuild == InitBuild /\ [][BuildNext]_vars

\* request r was answered by the catch block of its route
FailedByThrow(r) == req[r].pc = "done" /\ req[r].h.threw # ""

\* C25: a request that failed because an error was thrown is answered with the
\* detail of that error only in a development build; in any other build the
\* error response of the lesson, doubt, audio, diagram and transcription
\* endpoints has no details member.
C25_DetailOnlyInDevelopment ==
    \A r \in ReqIds :
        FailedByThrow(r) /\ NODE_ENV # "development" =>
            "details" \notin DOMAIN req[r].json

\* ---------------------------------------------------------------------------
\* DELETE /api/diagram/cache

\* DELETE /api/diagram/cache answers in this step
DiagramClearedNow == ClearedNow /\ ops'.diagram = ops.diagram + 1

\* the keys the step takes out of the diagram cache
DiagramKeysRemoved == DOMAIN diagramCache \ DOMAIN diagramCache'

\* the answer of the unscoped form of the endpoint
UnscopedAnswer == adminRes'.message = "All diagram cache cleared"

\* C26: a DELETE /api/diagram/cache with topic, grade and style removes at most
\* the entry of that key, reports cleared = 1 when the entry existed and 0
\* otherwise and leaves every other entry as it was; without them it removes
\* every entry and reports how many there were; and a request that arrives for
\* a key the cache does not hold is a miss.
C26_ScopedAndUnscopedDelete ==
    [][/\ DiagramClearedNow /\ ~UnscopedAnswer =>
              /\ Cardinality(DiagramKeysRemoved) <= 1
              /\ adminRes'.cleared = Cardinality(DiagramKeysRemoved)
              /\ \A k \in DiagramKeysRemoved :
                     adminRes'.message = "Cleared diagram cache for: " \o k
              /\ \A k \in DOMAIN diagramCache' : diagramCache'[k] = diagramCache[k]
       /\ DiagramClearedNow /\ UnscopedAnswer =>
              /\ diagramCache' = EmptyCache
              /\ adminRes'.cleared = Cardinality(DOMAIN diagramCache)
       /\ \A r \in ReqIds :
              /\ ArrivesAs(r, "diagram")
              /\ req'[r].h.looked
              /\ KeyOf(r)' \notin DOMAIN diagramCache
              => req'[r].pc = "image" /\ req'[r].h.gen = 1]_vars

C26_OneOfTwoRemoved ==
    /\ adminRes # Null
    /\ adminRes.message = "Cleared diagram cache for: img_plant_6_iconic"
    /\ adminRes.cleared = 1
    /\ DOMAIN diagramCache = {"img_plant_6_flow"}

\* ---------------------------------------------------------------------------
\* Time to live of the six stores

\* the policy, store by store in the order of AllCaches: lesson text 7 days,
\* lesson narration 1 hour, doubt answer 1 hour, doubt narration 1 hour,
\* standalone narration 24 hours, diagram 7 days
PolicyTTL ==
    <<7 * 24 * 3600, 3600, 3600, 3600, 24 * 3600, 7 * 24 * 3600>>

\* the keys of store i whose entry this step wrote
WrittenNow(i) ==
    {k \in DOMAIN AllCaches'[i] :
        k \notin DOMAIN AllCaches[i] \/ AllCaches'[i][k] # AllCaches[i][k]}

\* C27: every entry an orchestrator writes expires its store's time to live
\* after the write, and the time to live of each store is the one of the policy
\* table: lesson text 7 days, diagram 7 days, standalone narration audio 24
\* hours, lesson narration audio, doubt answer and doubt audio 1 hour.
C27_EntriesLiveForThePolicyTTL ==
    [][\A i \in DOMAIN AllCaches : \A k \in WrittenNow(i) :
           AllCaches'[i][k].t = now + PolicyTTL[i]]_vars

C27_NarrationsOfBothKinds ==
    /\ \E k \in DOMAIN lessonCache : lessonCache[k].t = now + 604800
    /\ \E k \in DOMAIN lessonAudioCache : lessonAudioCache[k].t = now + 3600
    /\ \E k \in DOMAIN audioCache : audioCache[k].t = now + 86400

\* ---------------------------------------------------------------------------
\* Writes over entries that are still live

\* the store and the write count of the route of request r
StoreOf(r) == IF req[r].kind = "lesson" THEN lessonCache ELSE diagramCache

StoreOpsOf(r) == IF req[r].kind = "lesson" THEN ops.lesson ELSE ops.diagram

\* request r of the lesson or diagram route stores its result in this step
WritesNow(r) ==
    /\ req[r].pc \notin {"idle", "done"}
    /\ req[r].kind \in {"lesson", "diagram"}
    /\ req'[r].h.putOps # req[r].h.putOps

\* the store holds an entry under the key whose time has not run out
HoldsLive(cache, key) ==
    key \in DOMAIN cache /\ (cache[key].t = 0 \/ cache[key].t >= now)

\* the live entries of a store that this step changes or removes
LiveEntriesTouched(cache, after) ==
    {k \in DOMAIN cache :
        HoldsLive(cache, k) /\ (k \notin DOMAIN after \/ after[k] # cache[k])}

\* C28 as stated: no write of the lesson or diagram route lands on a key whose
\* entry is still live, and a live entry changes in no other step.
C28_NoWriteOverLiveEntry ==
    [][/\ \A r \in ReqIds : WritesNow(r) => ~HoldsLive(StoreOf(r), KeyOf(r))
       /\ \A r \in ReqIds : ~WritesNow(r)
              => /\ LiveEntriesTouched(lessonCache, lessonCache') = {}
                 /\ LiveEntriesTouched(diagramCache, diagramCache') = {}]_vars

\* C28 as amended: a live entry changes only in the step in which a request
\* for its key stores a result, every such request missed at its own lookup,
\* and when its write lands on a live entry that entry was stored after the
\* request's lookup, by an overlapping request for the same key.
C28_OnlyOverlappingMissesOverwrite ==
    [][/\ \A r \in ReqIds :
              WritesNow(r) =>
                  /\ req[r].h.gen >= 1
                  /\ HoldsLive(StoreOf(r), KeyOf(r)) =>
                         /\ req[r].h.sawOps < StoreOpsOf(r)
                         /\ \E q \in ReqIds \ {r} :
                                /\ req[q].pc # "idle"
                                /\ req[q].kind = req[r].kind
                                /\ req[q].h.looked
                                /\ KeyOf(q) = KeyOf(r)
                                /\ req[q].h.putOps > req[r].h.sawOps
       /\ \A k \in LiveEntriesTouched(lessonCache, lessonCache') :
              \E r \in ReqIds :
                  WritesNow(r) /\ req[r].kind = "lesson" /\ KeyOf(r) = k
       /\ \A k \in LiveEntriesTouched(diagramCache, diagramCache') :
              \E r \in ReqIds :
                  WritesNow(r) /\ req[r].kind = "diagram" /\ KeyOf(r) = k]_vars

C28_LiveEntryOverwritten ==
    \E r1, r2 \in ReqIds :
        /\ req[r1].pc = "done" /\ req[r2].pc = "done"
        /\ req[r1].kind = "diagram" /\ req[r2].kind = "diagram"
        /\ req[r1].h.looked /\ req[r2].h.looked
        /\ KeyOf(r1) = KeyOf(r2)
        /\ req[r2].h.sawOps < req[r1].h.putOps
        /\ req[r1].h.putOps < req[r2].h.putOps
        /\ diagramCache[KeyOf(r2)].v.imageBase64 = req[r2].json.imageBase64
        /\ req[r1].json.imageBase64 # req[r2].json.imageBase64

\* ---------------------------------------------------------------------------
\* The markup builder and the audio stores

\* how often the opening tag of the markup occurs in a text
SpeakTags(s) ==
    Cardinality({i \in 1..(Len(s) - 6) : SubSeq(s, i, i + 6) = "<speak>"})

\* request r has looked its narration up and has not called Polly
NarrationServedFromStore(r) ==
    /\ req[r].pc = "done"
    /\ req[r].status = 200
    /\ req[r].kind \in {"lesson", "doubt", "audio"}
    /\ IF req[r].kind = "audio"
       THEN req[r].json.cached
       ELSE req[r].json.audio # Null /\ req[r].json.audio.cached

NarrationStores == <<lessonAudioCache, doubtAudioCache, audioCache>>

\* a text is the output of the speech synthesis, not markup
IsAudio(s) == Len(s) >= 4 /\ SubSeq(s, 1, 4) = "mp3["

\* C29: buildSSML runs at most once in a request and only after the audio
\* lookup missed: a request answered from an audio store has not run it, a
\* request that called Polly has run it exactly once, on text and not on
\* markup, and the entries of the audio stores hold audio and no markup.
C29_MarkupBuiltOncePerCall ==
    /\ \A r \in ReqIds :
           req[r].pc # "idle" =>
               /\ req[r].h.built <= 1
               /\ req[r].h.polly <= req[r].h.built
               /\ NarrationServedFromStore(r) => req[r].h.built = 0
               /\ req[r].pc = "polly" =>
                      /\ req[r].h.built = 1
                      /\ SpeakTags(req[r].ssmlText) = 1
    /\ \A i \in DOMAIN NarrationStores : \A k \in DOMAIN NarrationStores[i] :
           /\ "audioBase64" \in DOMAIN NarrationStores[i][k].v
           /\ "ssmlText" \notin DOMAIN NarrationStores[i][k].v
           /\ IsAudio(NarrationStores[i][k].v.audioBase64)

C29_BuiltOnMissNotOnHit ==
    \E r1, r2 \in ReqIds :
        /\ req[r1].pc = "done" /\ req[r1].kind = "audio"
        /\ req[r1].h.built = 1 /\ req[r1].h.polly = 1
        /\ req[r1].status = 200
        /\ NarrationServedFromStore(r2) /\ req[r2].kind = "audio"
        /\ req[r2].h.built = 0

\* ---------------------------------------------------------------------------
\* A request that waits on a collaborator and the requests beside it

\* request r waits on an upstream call
Suspended(r) ==
    req[r].pc \in {"generate", "quiz", "answer", "polly", "image", "deepgram"}

\* request r is the next one the server accepts
NextToArrive(r) == req[r].pc = "idle" /\ (r > 1 => req[r - 1].pc # "idle")

\* C30: while a request waits on an upstream call, the next diagram request
\* can be accepted and, once the image model has answered it, can store its
\* entry, count and respond, without the waiting request taking a step.
C30_SuspendedRequestBlocksNoOther ==
    \A r1, r2 \in ReqIds :
        r1 # r2 /\ Suspended(r1) =>
            /\ NextToArrive(r2) =>
                   \A body \in DiagramBodies : ENABLED DiagramPost(r2, body)
            /\ req[r2].pc = "image" =>
                   \A out \in ImageOutcomes : ENABLED DiagramImageReturns(r2, out)

C30_AnsweredWhileFirstWaits ==
    \E r1, r2 \in ReqIds :
        /\ r1 < r2
        /\ req[r1].pc = "generate" /\ req[r1].kind = "lesson"
        /\ req[r1].h.gen = 1
        /\ apiCallCount = 0 /\ lessonCache = EmptyCache
        /\ req[r2].pc = "done" /\ req[r2].kind = "diagram"
        /\ req[r2].status = 200 /\ req[r2].h.putOps = 1
        /\ imageApiCallCount = 1
        /\ DOMAIN diagramCache = {KeyOf(r2)}

\* ---------------------------------------------------------------------------
\* getSuggestedStyle

\* the rules of the style suggestion as the claim lists them, in their order
ListedStyleRules ==
    << [keys |-> {"cycle", "process", "algorithm"}, style |-> "flow"],
       [keys |-> {"animal", "plant", "ecosystem"}, style |-> "illustration"],
       [keys |-> {"cell", "atom", "system", "organ", "reproduction"},
        style |-> "diagram"],
       [keys |-> {"concept", "relationship"}, style |-> "abstract"] >>

\* the same rules with every keyword the function tests
FullStyleRules ==
    << [keys |-> {"cycle", "process", "steps", "algorithm"}, style |-> "flow"],
       [keys |-> {"animal", "plant", "ecosystem", "food chain"},
        style |-> "illustration"],
       [keys |-> {"cell", "atom", "system", "structure", "reproduction", "anatomy",
                  "organ"},
        style |-> "diagram"],
       [keys |-> {"concept", "relationship", "connection"}, style |-> "abstract"] >>

\* a topic with the rules whose keywords occur in it
RulesMatching(rules, topic) ==
    {i \in DOMAIN rules : \E key \in rules[i].keys : includes(toLowerCase(topic), key)}

\* the style of the first rule that matches, iconic when none does
FirstRuleStyle(rules, topic) ==
    LET matching == RulesMatching(rules, topic)
    IN  IF matching = {} THEN "iconic"
        ELSE rules[CHOOSE i \in matching : \A j \in matching : i <= j].style

\* the rules tried from the illustration topics on, the flowchart topics last
Mutant_C31_getSuggestedStyle(topic) ==
    LET topicLower == toLowerCase(topic)
    IN  IF \/ includes(topicLower, "animal") \/ includes(topicLower, "plant")
           \/ includes(topicLower, "ecosystem") \/ includes(topicLower, "food chain")
        THEN "illustration"
        ELSE IF \/ includes(topicLower, "cell") \/ includes(topicLower, "atom")
                \/ includes(topicLower, "system") \/ includes(topicLower, "structure")
                \/ includes(topicLower, "reproduction")
                \/ includes(topicLower, "anatomy") \/ includes(topicLower, "organ")
        THEN "diagram"
        ELSE IF \/ includes(topicLower, "concept")
                \/ includes(topicLower, "relationship")
                \/ includes(topicLower, "connection")
        THEN "abstract"
        ELSE IF \/ includes(topicLower, "cycle") \/ includes(topicLower, "process")
                \/ includes(topicLower, "steps") \/ includes(topicLower, "algorithm")
        THEN "flow"
        ELSE "iconic"

\* getSuggestedStyle(topic)
getSuggestedStyle(topic) ==
    LET topicLower == toLowerCase(topic)
    IN  IF \/ includes(topicLower, "cycle") \/ includes(topicLower, "process")
           \/ includes(topicLower, "steps") \/ includes(topicLower, "algorithm")
        THEN "flow"
        ELSE IF \/ includes(topicLower, "animal") \/ includes(topicLower, "plant")
                \/ includes(topicLower, "ecosystem") \/ includes(topicLower, "food chain")
        THEN "illustration"
        ELSE IF \/ includes(topicLower, "cell") \/ includes(topicLower, "atom")
                \/ includes(topicLower, "system") \/ includes(topicLower, "structure")
                \/ includes(topicLower, "reproduction")
                \/ includes(topicLower, "anatomy") \/ includes(topicLower, "organ")
        THEN "diagram"
        ELSE IF \/ includes(topicLower, "concept")
                \/ includes(topicLower, "relationship")
                \/ includes(topicLower, "connection")
        THEN "abstract"
        ELSE "iconic"

\* words of topics: the keywords of the rules, some in capitals, and plain words
StyleWords ==
    {"Cycle", "process", "steps", "ALGORITHM", "animal", "Plant", "ecosystem",
     "food chain", "cell", "Atom", "system", "structure", "reproduction", "anatomy",
     "organ", "concept", "Relationship", "connection", "poem", "votes"}

StyleProbe(topic) ==
    /\ probe.fn = "none"
    /\ probe' = [fn |-> "getSuggestedStyle", topic |-> topic,
                 style |-> getSuggestedStyle(topic)]
    /\ UNCHANGED <<now, req, lessonVars, doubtVars, audioVars, diagramVars,
                   upstream, ops, adminRes, NODE_ENV>>

StyleNext ==
    \E first \in StyleWords, second \in StyleWords \cup {""} :
        StyleProbe(IF second = "" THEN first ELSE first \o " " \o second)

SpecStyle == Init /\ [][StyleNext]_vars

\* C31 as stated: the suggested style is the style of the first rule, in the
\* order flowchart (cycle, process, algorithm), illustration (animal, plant,
\* ecosystem), scientific diagram (cell, atom, system, organ, reproduction),
\* abstract (concept, relationship), with a keyword in the topic, and iconic
\* when there is none; it is a style POST /api/diagram accepts.
C31_FirstListedRuleDecides ==
    probe.fn = "getSuggestedStyle" =>
        /\ probe.style = FirstRuleStyle(ListedStyleRules, probe.topic)
        /\ InSeq(VALID_STYLES, probe.style)

\* C31 as amended: the same with the keywords steps (flowchart), food chain
\* (illustration), structure and anatomy (scientific diagram) and connection
\* (abstract) added to the rules.
C31_FirstRuleDecides ==
    probe.fn = "getSuggestedStyle" =>
        /\ probe.style = FirstRuleStyle(FullStyleRules, probe.topic)
        /\ InSeq(VALID_STYLES, probe.style)

C31_PlantCycleIsAFlowchart ==
    /\ probe.fn = "getSuggestedStyle"
    /\ probe.topic = "Plant Cycle"
    /\ Cardinality(RulesMatching(FullStyleRules, probe.topic)) = 2
    /\ probe.style = "flow"

\* ---------------------------------------------------------------------------
\* The narration returned with a lesson

\* the audio generateAudioForText makes of a lesson for a language
NarratedFrom(lesson, lang) ==
    Synthesize(Lesson_buildSSML(Lesson_audioText(
                   lesson.title \o ". " \o lesson.introduction \o " " \o lesson.explanation)),
               Lesson_getVoiceConfig(lang))

\* a lesson response that carries audio
LessonWithAudio(r) ==
    /\ req[r].pc = "done"
    /\ req[r].kind = "lesson"
    /\ req[r].status = 200
    /\ req[r].json.audio # Null

\* C32: in every lesson response whose audio is not null, the audio was
\* synthesized from the title, introduction and explanation of the lesson of
\* that same response, however requests for one key overlap.
C32_AudioIsOfTheLessonReturned ==
    \A r \in ReqIds :
        LessonWithAudio(r) =>
            req[r].json.audio.audioBase64 =
                NarratedFrom(req[r].json.lesson, req[r].json.lesson.language)

(***************************************************************************)
(* The audio route: POST /api/audio/lesson                                 *)
(***************************************************************************)
\* a lesson object of a request body; a section that is missing is the empty
\* string, which the handler treats alike
JLesson(title, introduction, explanation, analogy, recap) ==
    [ty |-> "object", title |-> title, introduction |-> introduction,
     explanation |-> explanation, analogy |-> analogy, recap |-> recap]

\* the sections the narration is made of, in their order
LessonSections(lesson) ==
    <<lesson.introduction, lesson.explanation, lesson.analogy, lesson.recap>>

\* the loop over the sections: each one that is not blank is added between pauses
RECURSIVE addSections(_, _)
addSections(fullText, sections) ==
    IF sections = <<>> THEN fullText
    ELSE CHOOSE out \in {addSections(next, Tail(sections)) :
             next \in {IF trim(Head(sections)) # ""
                       THEN fullText \o "\n          <break time=\"800ms\"/>\n          "
                            \o trim(Head(sections))
                            \o "\n          <break time=\"1s\"/>\n        "
                       ELSE fullText}} : TRUE

\* the text of the whole lesson with its pauses
LessonFullText(lesson) ==
    addSections(lesson.title \o ". <break time=\"1s\"/>", LessonSections(lesson))

\* lessonCacheKey
AudioLessonCacheKey(lesson, voiceConfig) ==
    "lesson_" \o lesson.title \o "_" \o voiceConfig.voiceId \o "_"
    \o voiceConfig.languageCode

\* the catch block of the route
AudioLessonError(err) ==
    LET sent ==
        LET code == IF "code" \in DOMAIN err THEN err.code ELSE ""
        IN  IF code = "TextLengthExceededException"
            THEN [status |-> 400,
                  json |-> [error |-> "Lesson is too long. Try generating audio "
                                      \o "for each section separately."]]
            ELSE IF err.name = "ThrottlingException"
            THEN [status |-> 429,
                  json |-> [error |-> "Too many requests. Please wait a moment."]]
            ELSE [status |-> 500, json |-> [error |-> "Failed to generate lesson audio"]]
    IN  [status |-> sent.status, json |-> WithDetails(sent.json, err)]

\* from the request to polly.send: the checks of the lesson, the cache lookup and
\* the check of the length of the text
AudioLessonPost(r, body) ==
    /\ Arrives(r)
    /\ UNCHANGED <<now, lessonVars, doubtVars, diagramVars, ops, probe, NODE_ENV, adminRes>>
    /\ IF body.lesson.ty = "undefined"
       THEN /\ req' = [req EXCEPT ![r] =
                    Done("audioLesson", body, 400,
                         [error |-> "Lesson object is required"], NoHistory)]
            /\ UNCHANGED <<audioVars, upstream>>
       ELSE
       LET lesson == body.lesson
           voiceConfig == Audio_getVoiceConfig(stringOr(body.language, "English"),
                                               body.voiceId)
           lessonCacheKey == AudioLessonCacheKey(lesson, voiceConfig)
           fullText == LessonFullText(lesson)
           plainTextLength == Len(trim(stripTags(fullText)))
           hist == [NoHistory EXCEPT !.looked = TRUE,
                                     !.sawOps = ops.audio, !.sawAt = now,
                                     !.stale = IsStale(audioCache, lessonCacheKey, now)]
       IN  IF lesson.title = "" \/ lesson.introduction = "" \/ lesson.explanation = ""
           THEN /\ req' = [req EXCEPT ![r] =
                        Done("audioLesson", body, 400,
                             [error |-> "Invalid lesson structure",
                              required |-> <<"title", "introduction", "explanation",
                                             "analogy", "recap">>],
                             NoHistory)]
                /\ UNCHANGED <<audioVars, upstream>>
           ELSE IF IsLive(audioCache, lessonCacheKey, now)
           THEN /\ audioCacheHitCount' = audioCacheHitCount + 1
                /\ UNCHANGED <<audioCache, audioApiCallCount, upstream>>
                /\ req' = [req EXCEPT ![r] =
                        Done("audioLesson", body, 200,
                             [audioBase64 |-> audioCache[lessonCacheKey].v.audioBase64,
                              voiceUsed |-> voiceConfig.voiceId,
                              duration |-> audioCache[lessonCacheKey].v.duration,
                              cached |-> TRUE,
                              stats |-> [apiCalls |-> audioApiCallCount,
                                         cacheHits |-> audioCacheHitCount',
                                         savingsPercent |->
                                             toFixed1(audioCacheHitCount',
                                                 audioApiCallCount + audioCacheHitCount')
                                             \o "%"]],
                             hist)]
           ELSE IF plainTextLength > MAX_TEXT_LENGTH
           THEN /\ audioCache' = AfterGet(audioCache, lessonCacheKey, now)
                /\ UNCHANGED <<audioApiCallCount, audioCacheHitCount, upstream>>
                /\ req' = [req EXCEPT ![r] =
                        Done("audioLesson", body, 400,
                             [error |-> "Lesson text too long for single audio generation",
                              currentLength |-> plainTextLength,
                              maxLength |-> MAX_TEXT_LENGTH,
                              suggestion |-> "Generate audio for each section separately "
                                  \o "using the section-specific audio buttons"],
                             hist)]
           ELSE /\ audioCache' = AfterGet(audioCache, lessonCacheKey, now)
                /\ upstream' = [upstream EXCEPT !.polly = @ + 1]
                /\ UNCHANGED <<audioApiCallCount, audioCacheHitCount>>
                /\ req' = [req EXCEPT ![r] =
                        [pc |-> "polly", kind |-> "audioLesson", body |-> body,
                         fullText |-> fullText, voiceConfig |-> voiceConfig,
                         cacheKey |-> lessonCacheKey,
                         ssmlText |-> Audio_buildSSML(fullText),
                         h |-> [hist EXCEPT !.polly = 1, !.built = 1]]]

\* polly.send settles: the audio is stored and counted and the response sent, or
\* the catch block answers
AudioLessonPollyReturns(r, out) ==
    /\ req[r].pc = "polly"
    /\ req[r].kind = "audioLesson"
    /\ UNCHANGED <<now, audioCacheHitCount, lessonVars, doubtVars, diagramVars,
                   upstream, probe, NODE_ENV, adminRes>>
    /\ LET rec == req[r]
           audioBase64 == Synthesize(rec.ssmlText, rec.voiceConfig)
           duration == estimateDuration(rec.fullText)
           savingsPercent ==
               IF audioCacheHitCount > 0
               THEN toFixed1(audioCacheHitCount, audioApiCallCount' + audioCacheHitCount)
               ELSE "0"
           common == [audioBase64 |-> audioBase64, voiceUsed |-> rec.voiceConfig.voiceId,
                      duration |-> duration, cached |-> FALSE,
                      usingFallback |-> rec.voiceConfig.usingFallback,
                      stats |-> [apiCalls |-> audioApiCallCount',
                                 cacheHits |-> audioCacheHitCount,
                                 savingsPercent |-> savingsPercent \o "%"]]
       IN  IF out.threw
           THEN /\ UNCHANGED <<audioCache, audioApiCallCount, ops>>
                /\ req' = [req EXCEPT ![r] =
                        Done("audioLesson", rec.body, AudioLessonError(out).status,
                             AudioLessonError(out).json,
                             [rec.h EXCEPT !.pollyFailed = TRUE, !.threw = out.name])]
           ELSE /\ audioCache' = AudioCacheSet(rec.cacheKey,
                                          [audioBase64 |-> audioBase64, duration |-> duration])
                /\ ops' = [ops EXCEPT !.audio = @ + 1]
                /\ audioApiCallCount' = audioApiCallCount + 1
                /\ req' = [req EXCEPT ![r] =
                        Done("audioLesson", rec.body, 200,
                             IF rec.voiceConfig.usingFallback
                             THEN [k \in DOMAIN common \cup {"fallbackMessage"} |->
                                     IF k = "fallbackMessage"
                                     THEN "Audio generated in Hindi as "
                                          \o rec.voiceConfig.originalLanguage
                                          \o " is not yet supported by AWS Polly"
                                     ELSE common[k]]
                             ELSE common,
                             [rec.h EXCEPT !.putOps = ops'.audio])]

\* two lessons of one title that differ in the explanation, and lessons that
\* the handler rejects
PlantLesson ==
    JLesson("Plant - Grade 6", "Plants are living things.", "Plants make food from light.",
            "A leaf is a kitchen.", "Plants grow and make food.")

PlantLessonEdited ==
    JLesson("Plant - Grade 6", "Plants are living things.",
            "Plants make food from light, water & air.",
            "A leaf is a kitchen.", "Plants grow and make food.")

AudioLessonBodies ==
    { [lesson |-> PlantLesson, language |-> JStr("English"), voiceId |-> JUndef],
      [lesson |-> PlantLessonEdited, language |-> JStr("English"), voiceId |-> JUndef],
      [lesson |-> PlantLesson, language |-> JStr("Hindi"), voiceId |-> JUndef],
      [lesson |-> PlantLesson, language |-> JStr("Marathi"), voiceId |-> JUndef],
      [lesson |-> PlantLesson, language |-> JStr("English"), voiceId |-> JStr("Raveena")],
      [lesson |-> JUndef, language |-> JStr("English"), voiceId |-> JUndef],
      [lesson |-> JLesson("Plant - Grade 6", "", "Plants make food from light.", "", ""),
       language |-> JStr("English"), voiceId |-> JUndef],
      [lesson |-> JLesson("Plant - Grade 6", "Plants are living things.",
                          repeat("x", MAX_TEXT_LENGTH), "", ""),
       language |-> JStr("English"), voiceId |-> JUndef] }

\* the lesson-audio endpoint, one request at a time, with the clearing endpoint
AudioLessonNext ==
    \/ \E r \in ReqIds, body \in AudioLessonBodies : Quiet /\ AudioLessonPost(r, body)
    \/ \E r \in ReqIds, out \in AudioPollyOutcomes : AudioLessonPollyReturns(r, out)
    \/ Quiet /\ AudioClearCache

SpecAudioLesson == Init /\ [][AudioLessonNext]_vars

\* the narration the endpoint makes of the lesson of a body for its voice
LessonNarration(body) ==
    Synthesize(Audio_buildSSML(LessonFullText(body.lesson)),
               Audio_getVoiceConfig(stringOr(body.language, "English"), body.voiceId))

\* a request of the endpoint answered with audio
LessonAudioAnswered(r) ==
    /\ req[r].pc = "done"
    /\ req[r].kind = "audioLesson"
    /\ req[r].status = 200

\* C33: the audio of every answer of POST /api/audio/lesson, from the cache or
\* not, was synthesized from a lesson with the title, introduction, explanation,
\* analogy and recap of the lesson of the request; and a request answered from
\* the cache with the audio another request was answered with sent the same
\* lesson and asked for the same language as that request.
C33_LessonAudioIsOfTheLessonSent ==
    /\ \A r \in ReqIds :
          LessonAudioAnswered(r) => req[r].json.audioBase64 = LessonNarration(req[r].body)
    /\ \A r1, r2 \in ReqIds :
          ( /\ LessonAudioAnswered(r1) /\ LessonAudioAnswered(r2)
            /\ req[r2].json.cached
            /\ req[r2].json.audioBase64 = req[r1].json.audioBase64 )
              => /\ req[r1].body.lesson = req[r2].body.lesson
                 /\ req[r1].body.language = req[r2].body.language

\* ---------------------------------------------------------------------------
\* The related topic of a doubt

\* doubts about one question with and without a related topic
DoubtTopicBodies ==
    { [question |-> JStr(DoubtQuestion), topic |-> JStr("Light"), grade |-> JNum(6),
       language |-> JStr("English")],
      [question |-> JStr(DoubtQuestion), topic |-> JStr("Weather"), grade |-> JNum(6),
       language |-> JStr("English")],
      [question |-> JStr("  why is the SKY blue? "), topic |-> JStr("Colours"),
       grade |-> JUndef, language |-> JUndef],
      [question |-> JStr(DoubtQuestion), topic |-> JUndef, grade |-> JNum(6),
       language |-> JStr("English")],
      [question |-> JStr(DoubtQuestion), topic |-> JStr("Light"), grade |-> JNum(7),
       language |-> JStr("English")],
      [question |-> JStr(DoubtQuestion), topic |-> JStr("Light"), grade |-> JNum(6),
       language |-> JStr("Hindi")] }

\* the text model answers the prompt it was given, answers in a few words
\* between blanks, returns nothing, or throws
AnswersTo(prompt) ==
    {Returned("  Answer to: " \o prompt \o " "), Returned("     It is blue.      "),
     Returned(""), Thrown("ThrottlingException")}

\* the doubt route, one request at a time, with the clearing endpoint
DoubtTopicNext ==
    \/ \E r \in ReqIds, body \in DoubtTopicBodies : Quiet /\ DoubtPost(r, body)
    \/ \E r \in ReqIds :
          /\ req[r].pc = "answer"
          /\ \E out \in AnswersTo(req[r].prompt) : DoubtAnswerReturns(r, out)
    \/ \E r \in ReqIds, out \in PollyOutcomes : DoubtPollyReturns(r, out)
    \/ Quiet /\ DoubtClearCache

SpecDoubtTopic == Init /\ [][DoubtTopicNext]_vars

\* two doubt bodies with the same question up to case and outer blanks, the same
\* grade and the same language up to case
SameDoubtArgs(b1, b2) ==
    /\ trim(toLowerCase(b1.question.s)) = trim(toLowerCase(b2.question.s))
    /\ gradeOrDefault(b1.grade) = gradeOrDefault(b2.grade)
    /\ toLowerCase(stringOr(b1.language, "English"))
           = toLowerCase(stringOr(b2.language, "English"))

\* a doubt request answered with an answer
DoubtAnswered(r) ==
    /\ req[r].pc = "done"
    /\ req[r].kind = "doubt"
    /\ req[r].status = 200

\* the line of the prompt that names the related topic of a body
TopicLine(body) == IF Truthy(body.topic) THEN "Related Topic: " \o body.topic.s ELSE ""

\* r2 looked its key up after r1 had stored its answer, with no write between
LookedUpRightAfter(r1, r2) ==
    /\ DoubtAnswered(r1) /\ ~req[r1].json.cached
    /\ LookedUp(r2, "doubt")
    /\ req[r2].h.sawOps = req[r1].h.putOps
    /\ req[r2].h.sawAt < req[r1].h.sawAt + DoubtCacheTTL

\* C34: the key of a doubt depends only on the lower-cased and trimmed question,
\* the grade and the language: two doubts equal in these have one key whatever
\* their topics, and the second, asked while the entry of the first lives, makes
\* no upstream call and is answered from the cache with the answer generated for
\* the topic of the first.
C34_TopicIsNotPartOfTheKey ==
    \A r1, r2 \in ReqIds :
        ( /\ LookedUp(r1, "doubt") /\ LookedUp(r2, "doubt")
          /\ SameDoubtArgs(req[r1].body, req[r2].body) )
            => /\ TextKeyOf(r1) = TextKeyOf(r2)
               /\ LookedUpRightAfter(r1, r2)
                    => /\ req[r2].h.gen = 0
                       /\ req[r2].pc = "polly" => req[r2].answer = req[r1].json.answer
                       /\ req[r2].pc = "done"
                            => /\ req[r2].status = 200
                               /\ req[r2].json.cached
                               /\ req[r2].json.answer = req[r1].json.answer
                               /\ TopicLine(req[r1].body) # ""
                                    => includes(req[r2].json.answer,
                                                TopicLine(req[r1].body) \o "\n")

C34_AnsweredForAnotherTopic ==
    \E r1, r2 \in ReqIds :
        /\ LookedUpRightAfter(r1, r2)
        /\ DoubtAnswered(r2)
        /\ req[r2].json.cached
        /\ req[r1].body.topic = JStr("Light") /\ req[r2].body.topic = JStr("Weather")
        /\ SameDoubtArgs(req[r1].body, req[r2].body)
        /\ includes(req[r2].json.answer, "Related Topic: Light")
        /\ req[r2].h.gen = 0
        /\ upstream.text = 1

\* ---------------------------------------------------------------------------
\* Answers too short to keep

\* the answer the text model returned to request r settles in this step
AnswerSettles(r) ==
    /\ req[r].pc = "answer"
    /\ req[r].kind = "doubt"
    /\ req'[r].pc # "answer"

\* C35: every value in the doubt-answer cache is a trimmed string of at least 20
\* characters; when the answer of the text model, trimmed, is empty or shorter
\* than 20 characters, the request ends in an error response, the doubt cache,
\* the doubt-audio cache and the four doubt counters are unchanged and speech
\* synthesis is not called.
C35_ShortAnswersAreNotKept ==
    [][ /\ \A key \in DOMAIN doubtCache' :
              /\ doubtCache'[key].v = trim(doubtCache'[key].v)
              /\ Len(doubtCache'[key].v) >= 20
        /\ \A r \in ReqIds :
              ( /\ AnswerSettles(r)
                /\ req'[r].h.threw \in {"", "Error"}
                /\ Len(trim(req'[r].h.content)) < 20 )
                  => /\ req'[r].pc = "done"
                     /\ req'[r].status = 500
                     /\ req'[r].json.error = "Failed to answer question"
                     /\ req'[r].h.polly = 0
                     /\ UNCHANGED <<doubtVars, upstream>> ]_vars

C35_ShortPaddedAnswerRefused ==
    \E r \in ReqIds :
        /\ req[r].pc = "done"
        /\ req[r].kind = "doubt"
        /\ req[r].h.content = "     It is blue.      "
        /\ Len(req[r].h.content) >= 20
        /\ req[r].status = 500
        /\ doubtCache = EmptyCache
        /\ doubtAudioCache = EmptyCache
        /\ doubtApiCalls = 0
        /\ upstream.polly = 0

\* ---------------------------------------------------------------------------
\* What the counters count

\* the requests of a kind served from the store of the kind: answered cached,
\* or waiting for the audio of a cached text
ServedFromStore(kind) ==
    {r \in ReqIds :
        /\ LookedUp(r, kind)
        /\ IF req[r].pc = "done"
           THEN req[r].status = 200 /\ req[r].json.cached
           ELSE req[r].pc = "polly" /\ kind \in {"lesson", "doubt"} /\ req[r].cached}

\* the requests of a kind that missed, fetched and stored: answered not cached
\* with the resource, or waiting for the audio of the text they stored
FetchedAndStored(kind) ==
    {r \in ReqIds :
        /\ LookedUp(r, kind)
        /\ IF req[r].pc = "done"
           THEN /\ req[r].status = 200
                /\ ~req[r].json.cached
                /\ kind = "diagram" => "imageBase64" \in DOMAIN req[r].json
           ELSE req[r].pc = "polly" /\ kind \in {"lesson", "doubt"} /\ ~req[r].cached}

\* the requests of a kind that ended in an error response after their lookup
EndedInError(kind) ==
    {r \in ReqIds : LookedUp(r, kind) /\ req[r].pc = "done" /\ req[r].status >= 400}

HitCounter(kind) ==
    CASE kind = "lesson" -> cacheHitCount
      [] kind = "doubt" -> doubtCacheHits
      [] kind = "audio" -> audioCacheHitCount
      [] kind = "diagram" -> imageCacheHitCount

CallCounter(kind) ==
    CASE kind = "lesson" -> apiCallCount
      [] kind = "doubt" -> doubtApiCalls
      [] kind = "audio" -> audioApiCallCount
      [] kind = "diagram" -> imageApiCallCount

\* C36: for each resource type the hit counter is the number of requests that
\* found a live entry and the call counter the number of misses that fetched and
\* stored; a lesson miss that completes counts once whatever the number of its
\* generation attempts, and a request that ends in an error is in neither count
\* and changes neither counter in the step that ends it.
C36_CountersCountHitsAndStores ==
    [][ \A kind \in {"lesson", "doubt", "audio", "diagram"} :
          /\ HitCounter(kind)' = Cardinality(ServedFromStore(kind)')
          /\ CallCounter(kind)' = Cardinality(FetchedAndStored(kind)')
          /\ FetchedAndStored(kind)' = Stored(kind)'
          /\ EndedInError(kind)' \cap (ServedFromStore(kind)' \cup FetchedAndStored(kind)') = {}
          /\ \A r \in EndedInError(kind)' \ EndedInError(kind) :
                /\ HitCounter(kind)' = HitCounter(kind)
                /\ CallCounter(kind)' = CallCounter(kind)
          /\ \A r \in ReqIds :
                (kind = "lesson" /\ req[r].pc = "quiz" /\ req'[r].pc # "quiz")
                    => /\ apiCallCount' = apiCallCount + 1
                       /\ r \in FetchedAndStored(kind)' ]_vars

C36_TwoAttemptsCountedOnce ==
    \E r1, r2 \in ReqIds :
        /\ r1 \in FetchedAndStored("lesson")
        /\ req[r1].h.gen = 2
        /\ r2 \in EndedInError("lesson")
        /\ apiCallCount = 1
        /\ cacheHitCount = 0
        /\ upstream.text >= 4

\* ---------------------------------------------------------------------------
\* The last attempt of the lesson generator throws

\* lesson request r leaves the retry loop for the catch block in this step
LeavesLoopByThrow(r) ==
    /\ req[r].pc = "generate"
    /\ req[r].kind = "lesson"
    /\ req'[r].pc = "done"

\* C37: when generateLesson throws on the last attempt of the retry budget, also
\* after an attempt that returned too little, the lesson request is answered with
\* an error, 429 for a throttling error and 500 otherwise: the fallback content
\* is not used, neither the quiz nor the audio is requested, the lesson and audio
\* stores hold what they held and no counter changes.
C37_LastThrowEndsTheRequest ==
    [][ \A r \in ReqIds :
          LeavesLoopByThrow(r) =>
              /\ req[r].h.gen = maxAttempts
              /\ req'[r].h.threw # ""
              /\ req'[r].status = IF req'[r].h.threw = "ThrottlingException"
                                  THEN 429 ELSE 500
              /\ DOMAIN req'[r].json = {"error"}
              /\ ~req'[r].h.fallback
              /\ req'[r].h.content = ""
              /\ req'[r].h.polly = 0
              /\ UNCHANGED <<upstream, AllCaches, AllCounters>> ]_vars

C37_ThrowAfterShortAttempt ==
    \E r1, r2 \in ReqIds :
        /\ req[r1].pc = "done" /\ req[r1].kind = "lesson"
        /\ req[r1].h.short = 1
        /\ req[r1].h.gen = 2
        /\ req[r1].h.threw = "ThrottlingException"
        /\ req[r1].status = 429
        /\ req[r2].pc = "done" /\ req[r2].kind = "lesson"
        /\ req[r2].h.threw = "Error"
        /\ req[r2].status = 500
        /\ upstream = [text |-> 4, polly |-> 0, image |-> 0]
        /\ lessonCache = EmptyCache /\ lessonAudioCache = EmptyCache
        /\ apiCallCount = 0

\* ---------------------------------------------------------------------------
\* The grade of a lesson

\* lesson requests for one topic with grades in and out of the range, and one
\* without a grade
GradeBodies ==
    { [topic |-> JStr("Plant"), grade |-> g, language |-> JStr("English")] :
        g \in {JNum(0), JNum(0 - 1), JNum(1), JNum(7), JNum(12), JNum(13), JUndef} }

\* the lesson route, one request at a time
GradeNext ==
    \/ \E r \in ReqIds, body \in GradeBodies : Quiet /\ LessonPost(r, body)
    \/ \E r \in ReqIds, out \in LessonOutcomesPlain : LessonGenerateReturns(r, out)
    \/ \E r \in ReqIds, out \in QuizOutcomes : LessonQuizReturns(r, out)
    \/ \E r \in ReqIds, out \in PollyOutcomes : LessonPollyReturns(r, out)

SpecGrades == Init /\ [][GradeNext]_vars

\* a lesson request that names a topic and supplies a number as its grade
SuppliesGrade(r) ==
    /\ req[r].pc # "idle"
    /\ req[r].kind = "lesson"
    /\ Truthy(req[r].body.topic)
    /\ req[r].body.grade.ty = "number"

\* C38: a lesson request whose supplied grade is outside 1..12 is answered with
\* the validation error "Grade must be between 1 and 12" before any lookup and
\* any upstream call, and every lesson that is stored or returned carries the
\* grade its caller supplied.
C38_GradeOutOfRangeIsRejected ==
    \A r \in ReqIds :
        SuppliesGrade(r) =>
            /\ req[r].body.grade.n \notin 1..12
                 => /\ req[r].pc = "done"
                    /\ req[r].status = 400
                    /\ "errors" \in DOMAIN req[r].json
                    /\ InSeq(req[r].json.errors, "Grade must be between 1 and 12")
                    /\ ~req[r].h.looked
                    /\ req[r].h.gen = 0
            /\ (req[r].pc = "done" /\ req[r].status = 200)
                 => /\ req[r].json.lesson.grade = req[r].body.grade.n
                    /\ getLessonCacheKey("Plant", req[r].body.grade.n, "English")
                           \in DOMAIN lessonCache

\* ---------------------------------------------------------------------------
\* The quiz call fails

\* the fallback quiz of the lesson that body asks for
FallbackQuizFor(body) ==
    generateFallbackQuiz(body.topic.s, gradeOrDefault(body.grade),
                         stringOr(body.language, "English"))

\* the quiz call of lesson request r settles in this step
QuizSettles(r) ==
    /\ req[r].pc = "quiz"
    /\ req'[r].pc # "quiz"

\* r2 looked its key up while the lesson r1 stored was the live entry: no write
\* and no flush between, and within the time to live
LooksUpStoredLesson(r1, r2) ==
    /\ r1 \in Stored("lesson")
    /\ LookedUp(r2, "lesson")
    /\ req[r2].h.sawOps = req[r1].h.putOps
    /\ req[r2].h.sawAt < WrittenBy(r1).timestamp + LessonCacheTTL
    /\ KeyOf(r1) = KeyOf(r2)

\* C39: a quiz call that throws does not fail the lesson request: the lesson is
\* built with the local fallback quiz, stored under its key with that quiz and
\* counted, the request goes on to its audio and is answered 200; a later
\* request for the same key before expiry or flush makes no upstream call and
\* returns the lesson with the fallback quiz from the cache.
C39_QuizFailureIsNotFatal ==
    [][ /\ \A r \in ReqIds :
              (QuizSettles(r) /\ req'[r].h.quizThrew) =>
                  /\ req'[r].pc \in {"polly", "done"}
                  /\ req'[r].pc = "done" => req'[r].status = 200
                  /\ WrittenBy(r)'.quiz = FallbackQuizFor(req[r].body)
                  /\ lessonCache'[KeyOf(r)].v = WrittenBy(r)'
                  /\ apiCallCount' = apiCallCount + 1
        /\ \A r1, r2 \in ReqIds :
              (r1 # r2 /\ req'[r2].pc # "idle" /\ req'[r1].pc # "idle"
                       /\ req'[r1].h.quizThrew /\ LooksUpStoredLesson(r1, r2)') =>
                  /\ req'[r2].h.gen = 0
                  /\ req'[r2].pc = "done" =>
                        /\ req'[r2].status = 200
                        /\ req'[r2].json.cached
                        /\ req'[r2].json.lesson.quiz = FallbackQuizFor(req'[r1].body) ]_vars

C39_FallbackQuizFromCache ==
    \E r1, r2 \in ReqIds :
        /\ req[r1].pc = "done" /\ req[r2].pc = "done"
        /\ req[r1].h.quizThrew
        /\ LooksUpStoredLesson(r1, r2)
        /\ ~req[r1].h.fallback
        /\ req[r1].pc = "done" /\ req[r1].status = 200 /\ ~req[r1].json.cached
        /\ req[r2].pc = "done" /\ req[r2].json.cached
        /\ req[r2].json.lesson.quiz
               = "Question 1: Plant is important. True or False?\nAnswer: True\n\n"
                 \o "Question 2: What describes Plant"
                 \o "?\nA) Important concept\nB) Unrelated\nC) Advanced only\nD) None\nAnswer: A\n\n"
                 \o "Question 3: How to apply Plant?\nAnswer: Explain practical uses."
        /\ apiCallCount = 1
        /\ cacheHitCount = 1

\* ---------------------------------------------------------------------------
\* One response for every request

\* the upstream calls request r may still wait for before it is answered
AwaitsLeft(r) ==
    CASE req[r].pc = "generate" -> (maxAttempts - req[r].attempts) + 2
      [] req[r].pc = "quiz" -> 2
      [] req[r].pc = "answer" -> 2
      [] req[r].pc \in {"polly", "image"} -> 1
      [] OTHER -> 0

\* request r is answered in this step
AnsweredNow(r) == req[r].pc # "done" /\ req'[r].pc = "done"

\* C40: every request of the lesson, doubt, audio and diagram handlers is sent
\* exactly one response, whatever path it takes: the step that answers it sends
\* one status and one body, an answered request is never answered again, and a
\* request that is not yet answered waits for an upstream call whose return
\* brings it nearer to its response, so that no path ends without one.
C40_ExactlyOneResponse ==
    [][ \A r \in ReqIds :
           /\ AnsweredNow(r) =>
                 /\ req'[r].status \in {200, 400, 429, 500}
                 /\ DOMAIN req'[r].json # {}
           /\ req[r].pc = "done" => req'[r] = req[r]
           /\ req'[r].pc # "idle" =>
                 /\ req'[r].pc = "done" \/ Suspended(r)'
                 /\ req'[r] # req[r] => AwaitsLeft(r)' < AwaitsLeft(r) \/ req[r].pc = "idle" ]_vars

C40_AnsweredOnTwoPaths ==
    \E r1, r2 \in ReqIds :
        /\ req[r1].pc = "done" /\ req[r2].pc = "done"
        /\ req[r1].status = 400 /\ ~req[r1].h.looked
        /\ req[r2].status = 200 /\ req[r2].h.pollyFailed /\ req[r2].h.fallback

====
